---------------------------- MODULE Spec2Model ----------------------------
(***************************************************************************)
(* Signal-to-PDU mapping, PDU / signal triggerings and their ECU ports in  *)
(* autosar-data-abstraction (communication/pdu/mod.rs and                  *)
(* communication/signal/mod.rs).                                           *)
(*                                                                         *)
(* The element graph is held as three arenas (PduTriggerings,              *)
(* ISignalTriggerings, ports) addressed by creation index, plus the        *)
(* mapping records of every ISignalIPdu.  Every public operation is one    *)
(* action; the loops inside an operation are recursive operators that      *)
(* return at the first error, as the `?` operator does.                    *)
(***************************************************************************)
EXTENDS Integers, Sequences, FiniteSets, TLC

(***************************************************************************)
(* Bounds of the model.                                                    *)
(***************************************************************************)
\* the most elements (triggerings, mappings and ports together) the graph holds
MaxElements == 9
\* the most PduTriggerings
MaxPduTriggerings == 2
\* the most mappings when map_signal is called with every attribute combination
MaxAttrMappings == 1
\* the most mappings when map_signal is called with start positions that overlap
MaxOverlapMappings == 3
\* the most elements and PduTriggerings of the graph when element names are
\* taken by elements that the triggerings did not create
MaxFaultElements == 10
MaxFaultPduTriggerings == 3
\* the most elements the packages hold
MaxPackageElements == 3
\* the most elements and PduTriggerings of the graph when PduTriggerings are made
\* for Pdus of both kinds
MaxTriggerElements == 7
MaxTriggerPduTriggerings == 2

(***************************************************************************)
(* The fixed objects the operations are applied to.                        *)
(***************************************************************************)
Channels == {"c1", "c2"}
Ecus == {"A", "B"}

\* Pdu objects; the name of a Pdu is its identifier here.
ISignalIPdus == {"p"}
OtherPdus == {"n"}
Pdus == ISignalIPdus \cup OtherPdus

\* The Pdu enum tag of each Pdu object
PduVariant(pdu) == IF pdu \in ISignalIPdus THEN "ISignalIPdu" ELSE "NmPdu"

NoName == "<none>"
\* Signal objects: 1 and 2 are two signals called "s" that live in different
\* packages, 3 is a signal whose element has no resolvable name any more.
Signals == {1, 2, 3}
SignalName(signal) == IF signal = 3 THEN NoName ELSE "s"

\* the topology: which ECU has a communication connector on which channel
Topology == {<<"c1", "A">>, <<"c2", "B">>}

\* None of an Option<u32>, and a sub-element that does not exist
NoValue == -1

\* input values of map_signal
StartPositions == {0, 8}
\* the bit length that the signals were created with, and start positions of
\* which 4 lies inside the bits of a signal mapped at 0
SignalLength(signal) == 8
OverlapStartPositions == {0, 4, 8}
UpdateBits == {NoValue, 0, 12}

VARIABLES
    connectors,         \* set of <<channel, ecu>>: the ECU has a connector on the channel
    mappings,           \* [ISignalIPdus -> Seq(mapping element)]: ISignalToPduMappings of each Pdu
    pduTriggerings,     \* arena of PduTriggering elements
    signalTriggerings,  \* arena of ISignalTriggering elements
    ports,              \* the IPduPort / ISignalPort elements, by their path
    elements,           \* the elements of the packages, by their path
    ret                 \* the last call: the operation, its arguments and its result

vars == <<connectors, mappings, pduTriggerings, signalTriggerings, ports, elements, ret>>

Min(S) == CHOOSE x \in S : \A y \in S : x <= y

\* the part of the element graph that the triggering operations mutate
Graph == [pts |-> pduTriggerings, sts |-> signalTriggerings, ports |-> ports]

(***************************************************************************)
(* Helpers of the crate and of the element store.                          *)
(***************************************************************************)

RECURSIVE UniqueNameFrom(_, _, _)
UniqueNameFrom(taken, initial_name, counter) ==
    LET name == IF counter = 0 THEN initial_name
                ELSE initial_name \o "_" \o ToString(counter)
    IN  IF name \in taken THEN UniqueNameFrom(taken, initial_name, counter + 1)
        ELSE name

\* make_unique_name(model, base_path, initial_name): the first of initial_name,
\* initial_name_1, initial_name_2, ... that no element at base_path/<name> has;
\* `taken` is the set of names of the elements that exist below base_path
make_unique_name(taken, initial_name) == UniqueNameFrom(taken, initial_name, 0)

\* the names of the identifiable elements below a channel: both kinds of
\* triggering are at <channel path>/<name>
ChannelNames(g, channel) ==
    {g.pts[i].name : i \in {j \in DOMAIN g.pts : g.pts[j].channel = channel}}
    \cup {g.sts[i].name : i \in {j \in DOMAIN g.sts : g.sts[j].channel = channel}}

\* the names of the identifiable elements below a Pdu: its mappings
MappingNames(maps, pdu) == {maps[pdu][i].name : i \in DOMAIN maps[pdu]}

\* PhysicalChannel::get_ecu_connector(ecu), as Some / None
HasEcuConnector(channel, ecu) == <<channel, ecu>> \in connectors

\* The path of a port element: the channel and the ECU of the connector that
\* holds it, and its name.  NoPort stands for "no port".
PortPath(channel, ecu, name) == <<channel, ecu, name>>
NoPort == <<>>

\* create_named_sub_element fails when an element of that path exists
PortExists(g, path) == path \in DOMAIN g.ports

\* the element graph with one more port element
WithPort(p, path, elem) ==
    [x \in DOMAIN p \cup {path} |-> IF x = path THEN elem ELSE p[x]]

(***************************************************************************)
(* IPduPort / ISignalPort                                                  *)
(***************************************************************************)

\* IPduPort::ecu / ISignalPort::ecu: the named parent of the connector that
\* holds the port
Port_ecu(port) == port[2]

\* the enum item stored for a direction, and the conversion back
DirectionItem(direction) == IF direction = "In" THEN "IN" ELSE "OUT"
DirectionOfItem(item) == IF item = "IN" THEN "In" ELSE "Out"

\* IPduPort::communication_direction / ISignalPort::communication_direction
Port_communication_direction(g, port) ==
    DirectionOfItem(g.ports[port].CommunicationDirection)

Directions == {"In", "Out"}

\* the suffixes the other way round
PortSuffix_Swapped(direction) == IF direction = "In" THEN "Tx" ELSE "Rx"

\* "Rx" for In, "Tx" for Out
PortSuffix(direction) == IF direction = "In" THEN "Rx" ELSE "Tx"

\* the first port of the reference list `refs` that has the given ECU and
\* direction, NoPort when there is none: the loop at the head of connect_to_ecu
ExistingPort(g, refs, ecu, direction) ==
    LET hits == {i \in DOMAIN refs :
                    /\ Port_ecu(refs[i]) = ecu
                    /\ Port_communication_direction(g, refs[i]) = direction}
    IN  IF hits = {} THEN NoPort ELSE refs[Min(hits)]

\* the (ECU, direction) pairs of a list of port references
PortPairs(g, refs) ==
    {<<Port_ecu(refs[i]), Port_communication_direction(g, refs[i])>> :
        i \in DOMAIN refs}

(***************************************************************************)
(* ISignalTriggering                                                       *)
(***************************************************************************)

\* ISignalTriggering::connect_to_ecu without the search for an existing port
ISignalTriggering_connect_to_ecu_NoSearch(g, st, ecu, direction) ==
    LET self == g.sts[st]
        port_name == self.name \o "_" \o PortSuffix(direction)
        sp_elem == [kind |-> "ISignalPort",
                    CommunicationDirection |-> DirectionItem(direction)]
        id == PortPath(self.channel, ecu, port_name)
    IN  IF ~HasEcuConnector(self.channel, ecu)
        THEN [g |-> g, status |-> "InvalidParameter", value |-> NoPort]
        ELSE IF PortExists(g, id)
        THEN [g |-> g, status |-> "DuplicateItemName", value |-> NoPort]
        ELSE [g |-> [g EXCEPT !.ports = WithPort(@, id, sp_elem),
                              !.sts[st].ports = Append(@, id)],
              status |-> "Ok", value |-> id]

\* ISignalTriggering::connect_to_ecu without the search for an existing port,
\* taking the port element of that name when there is one
ISignalTriggering_connect_to_ecu_GetOrCreate(g, st, ecu, direction) ==
    LET self == g.sts[st]
        port_name == self.name \o "_" \o PortSuffix(direction)
        sp_elem == [kind |-> "ISignalPort",
                    CommunicationDirection |-> DirectionItem(direction)]
        id == PortPath(self.channel, ecu, port_name)
    IN  IF ~HasEcuConnector(self.channel, ecu)
        THEN [g |-> g, status |-> "InvalidParameter", value |-> NoPort]
        ELSE [g |-> [g EXCEPT !.ports = WithPort(@, id, sp_elem),
                              !.sts[st].ports = Append(@, id)],
              status |-> "Ok", value |-> id]

\* ISignalTriggering::connect_to_ecu
\* connect_to_ecu that replaces the port references of the ISignalTriggering by
\* the reference to the new port
ISignalTriggering_connect_to_ecu_ReplacePorts(g, st, ecu, direction) ==
    LET self == g.sts[st]
        existing == ExistingPort(g, self.ports, ecu, direction)
        port_name == self.name \o "_" \o PortSuffix(direction)
        sp_elem == [kind |-> "ISignalPort",
                    CommunicationDirection |-> DirectionItem(direction)]
        id == PortPath(self.channel, ecu, port_name)
    IN  IF existing # NoPort
        THEN [g |-> g, status |-> "Ok", value |-> existing]
        ELSE IF ~HasEcuConnector(self.channel, ecu)
        THEN [g |-> g, status |-> "InvalidParameter", value |-> NoPort]
        ELSE IF PortExists(g, id)
        THEN [g |-> g, status |-> "DuplicateItemName", value |-> NoPort]
        ELSE [g |-> [g EXCEPT !.ports = WithPort(@, id, sp_elem),
                              !.sts[st].ports = <<id>>],
              status |-> "Ok", value |-> id]

ISignalTriggering_connect_to_ecu(g, st, ecu, direction) ==
    LET self == g.sts[st]
        existing == ExistingPort(g, self.ports, ecu, direction)
        port_name == self.name \o "_" \o PortSuffix(direction)
        sp_elem == [kind |-> "ISignalPort",
                    CommunicationDirection |-> DirectionItem(direction)]
        id == PortPath(self.channel, ecu, port_name)
    IN  IF existing # NoPort
        THEN [g |-> g, status |-> "Ok", value |-> existing]
        ELSE IF ~HasEcuConnector(self.channel, ecu)
        THEN [g |-> g, status |-> "InvalidParameter", value |-> NoPort]
        ELSE IF PortExists(g, id)
        THEN [g |-> g, status |-> "DuplicateItemName", value |-> NoPort]
        ELSE [g |-> [g EXCEPT !.ports = WithPort(@, id, sp_elem),
                              !.sts[st].ports = Append(@, id)],
              status |-> "Ok", value |-> id]

\* ISignalTriggering::new naming the triggering without make_unique_name
ISignalTriggering_new_PlainName(g, signal, channel) ==
    LET signal_name == SignalName(signal)
        pt_name == "ST_" \o signal_name
        st_elem == [name |-> pt_name, channel |-> channel, signal |-> signal,
                    ports |-> <<>>]
    IN  IF signal_name = NoName
        THEN [g |-> g, status |-> "InvalidParameter", value |-> 0]
        ELSE IF pt_name \in ChannelNames(g, channel)
        THEN [g |-> g, status |-> "DuplicateItemName", value |-> 0]
        ELSE [g |-> [g EXCEPT !.sts = Append(@, st_elem)],
              status |-> "Ok", value |-> Len(g.sts) + 1]

\* ISignalTriggering::new
ISignalTriggering_new(g, signal, channel) ==
    LET signal_name == SignalName(signal)
        pt_name == make_unique_name(ChannelNames(g, channel), "ST_" \o signal_name)
        st_elem == [name |-> pt_name, channel |-> channel, signal |-> signal,
                    ports |-> <<>>]
    IN  IF signal_name = NoName
        THEN [g |-> g, status |-> "InvalidParameter", value |-> 0]
        ELSE IF pt_name \in ChannelNames(g, channel)
        THEN [g |-> g, status |-> "DuplicateItemName", value |-> 0]
        ELSE [g |-> [g EXCEPT !.sts = Append(@, st_elem)],
              status |-> "Ok", value |-> Len(g.sts) + 1]

(***************************************************************************)
(* PduTriggering                                                           *)
(***************************************************************************)

\* the loop over the ports of the PduTriggering, connecting nothing
ConnectToPduPorts_None(g, refs, st, i) == [g |-> g, status |-> "Ok", value |-> st]

\* `for pdu_port in pt.pdu_ports() { st.connect_to_ecu(ecu, direction)?; }`
\* from port reference number i on
RECURSIVE ConnectToPduPorts(_, _, _, _)
ConnectToPduPorts(g, refs, st, i) ==
    IF i > Len(refs) THEN [g |-> g, status |-> "Ok", value |-> st]
    ELSE LET pdu_port == refs[i]
             r == ISignalTriggering_connect_to_ecu(
                      g, st, Port_ecu(pdu_port), Port_communication_direction(g, pdu_port))
         IN  IF r.status # "Ok" THEN [g |-> r.g, status |-> r.status, value |-> 0]
             ELSE ConnectToPduPorts(r.g, refs, st, i + 1)

\* add_signal_triggering that returns the child of the signal when the
\* PduTriggering has one
add_signal_triggering_Dedup(g, pt, signal) ==
    LET channel == g.pts[pt].channel
        same == {i \in DOMAIN g.pts[pt].signal_triggerings :
                    g.sts[g.pts[pt].signal_triggerings[i]].signal = signal}
        n == ISignalTriggering_new(g, signal, channel)
        st == n.value
        g1 == [n.g EXCEPT !.pts[pt].signal_triggerings = Append(@, st)]
    IN  IF same # {}
        THEN [g |-> g, status |-> "Ok",
              value |-> g.pts[pt].signal_triggerings[Min(same)]]
        ELSE IF n.status # "Ok" THEN n
        ELSE ConnectToPduPorts(g1, g1.pts[pt].ports, st, 1)

\* add_signal_triggering that makes the ISignalTriggering on channel c1, whatever
\* the channel of the PduTriggering is
add_signal_triggering_FixedChannel(g, pt, signal) ==
    LET channel == "c1"
        n == ISignalTriggering_new(g, signal, channel)
        st == n.value
        g1 == [n.g EXCEPT !.pts[pt].signal_triggerings = Append(@, st)]
    IN  IF n.status # "Ok" THEN n
        ELSE ConnectToPduPorts(g1, g1.pts[pt].ports, st, 1)

\* PduTriggering::add_signal_triggering
add_signal_triggering(g, pt, signal) ==
    LET channel == g.pts[pt].channel
        n == ISignalTriggering_new(g, signal, channel)
        st == n.value
        g1 == [n.g EXCEPT !.pts[pt].signal_triggerings = Append(@, st)]
    IN  IF n.status # "Ok" THEN n
        ELSE ConnectToPduPorts(g1, g1.pts[pt].ports, st, 1)

\* the loop over the children, connecting the first child only
ConnectSignalTriggerings_FirstOnly(g, sts, ecu, direction, i) ==
    IF sts = <<>> THEN [g |-> g, status |-> "Ok", value |-> 0]
    ELSE LET r == ISignalTriggering_connect_to_ecu(g, sts[1], ecu, direction)
         IN  [g |-> r.g, status |-> r.status, value |-> 0]

\* `for st in self.signal_triggerings() { st.connect_to_ecu(ecu, direction)?; }`
\* from child number i on
RECURSIVE ConnectSignalTriggerings(_, _, _, _, _)
ConnectSignalTriggerings(g, sts, ecu, direction, i) ==
    IF i > Len(sts) THEN [g |-> g, status |-> "Ok", value |-> 0]
    ELSE LET r == ISignalTriggering_connect_to_ecu(g, sts[i], ecu, direction)
         IN  IF r.status # "Ok" THEN [g |-> r.g, status |-> r.status, value |-> 0]
             ELSE ConnectSignalTriggerings(r.g, sts, ecu, direction, i + 1)

\* PduTriggering::connect_to_ecu without the loop over the children
PduTriggering_connect_to_ecu_NoPropagation(g, pt, ecu, direction) ==
    LET self == g.pts[pt]
        existing == ExistingPort(g, self.ports, ecu, direction)
        port_name == self.name \o "_" \o PortSuffix(direction)
        pp_elem == [kind |-> "IPduPort",
                    CommunicationDirection |-> DirectionItem(direction)]
        id == PortPath(self.channel, ecu, port_name)
        g1 == [g EXCEPT !.ports = WithPort(@, id, pp_elem),
                        !.pts[pt].ports = Append(@, id)]
    IN  IF existing # NoPort
        THEN [g |-> g, status |-> "Ok", value |-> existing]
        ELSE IF ~HasEcuConnector(self.channel, ecu)
        THEN [g |-> g, status |-> "InvalidParameter", value |-> NoPort]
        ELSE IF PortExists(g, id)
        THEN [g |-> g, status |-> "DuplicateItemName", value |-> NoPort]
        ELSE [g |-> g1, status |-> "Ok", value |-> id]

\* PduTriggering::connect_to_ecu without the lookup of the connector
PduTriggering_connect_to_ecu_NoConnector(g, pt, ecu, direction) ==
    LET self == g.pts[pt]
        existing == ExistingPort(g, self.ports, ecu, direction)
        port_name == self.name \o "_" \o PortSuffix(direction)
        pp_elem == [kind |-> "IPduPort",
                    CommunicationDirection |-> DirectionItem(direction)]
        id == PortPath(self.channel, ecu, port_name)
        g1 == [g EXCEPT !.ports = WithPort(@, id, pp_elem),
                        !.pts[pt].ports = Append(@, id)]
        r == ConnectSignalTriggerings(g1, self.signal_triggerings, ecu, direction, 1)
    IN  IF existing # NoPort
        THEN [g |-> g, status |-> "Ok", value |-> existing]
        ELSE IF PortExists(g, id)
        THEN [g |-> g, status |-> "DuplicateItemName", value |-> NoPort]
        ELSE IF r.status # "Ok" THEN [g |-> r.g, status |-> r.status, value |-> NoPort]
        ELSE [g |-> r.g, status |-> "Ok", value |-> id]

\* PduTriggering::connect_to_ecu that, when a child cannot be connected, leaves
\* the graph as it was
PduTriggering_connect_to_ecu_Rollback(g, pt, ecu, direction) ==
    LET self == g.pts[pt]
        existing == ExistingPort(g, self.ports, ecu, direction)
        port_name == self.name \o "_" \o PortSuffix(direction)
        pp_elem == [kind |-> "IPduPort",
                    CommunicationDirection |-> DirectionItem(direction)]
        id == PortPath(self.channel, ecu, port_name)
        g1 == [g EXCEPT !.ports = WithPort(@, id, pp_elem),
                        !.pts[pt].ports = Append(@, id)]
        r == ConnectSignalTriggerings(g1, self.signal_triggerings, ecu, direction, 1)
    IN  IF existing # NoPort
        THEN [g |-> g, status |-> "Ok", value |-> existing]
        ELSE IF ~HasEcuConnector(self.channel, ecu)
        THEN [g |-> g, status |-> "InvalidParameter", value |-> NoPort]
        ELSE IF PortExists(g, id)
        THEN [g |-> g, status |-> "DuplicateItemName", value |-> NoPort]
        ELSE IF r.status # "Ok" THEN [g |-> g, status |-> r.status, value |-> NoPort]
        ELSE [g |-> r.g, status |-> "Ok", value |-> id]

\* the loop over the children that goes on after a child that cannot be
\* connected
RECURSIVE ConnectSignalTriggerings_SkipErrors(_, _, _, _, _)
ConnectSignalTriggerings_SkipErrors(g, sts, ecu, direction, i) ==
    IF i > Len(sts) THEN [g |-> g, status |-> "Ok", value |-> 0]
    ELSE LET r == ISignalTriggering_connect_to_ecu(g, sts[i], ecu, direction)
         IN  ConnectSignalTriggerings_SkipErrors(r.g, sts, ecu, direction, i + 1)

\* PduTriggering::connect_to_ecu that, when the PduTriggering has the port
\* already, connects the children that can be connected
PduTriggering_connect_to_ecu_Reconnect(g, pt, ecu, direction) ==
    LET self == g.pts[pt]
        existing == ExistingPort(g, self.ports, ecu, direction)
        port_name == self.name \o "_" \o PortSuffix(direction)
        pp_elem == [kind |-> "IPduPort",
                    CommunicationDirection |-> DirectionItem(direction)]
        id == PortPath(self.channel, ecu, port_name)
        g1 == [g EXCEPT !.ports = WithPort(@, id, pp_elem),
                        !.pts[pt].ports = Append(@, id)]
        r == ConnectSignalTriggerings(g1, self.signal_triggerings, ecu, direction, 1)
        again == ConnectSignalTriggerings_SkipErrors(g, self.signal_triggerings, ecu,
                                                     direction, 1)
    IN  IF existing # NoPort
        THEN [g |-> again.g, status |-> "Ok", value |-> existing]
        ELSE IF ~HasEcuConnector(self.channel, ecu)
        THEN [g |-> g, status |-> "InvalidParameter", value |-> NoPort]
        ELSE IF PortExists(g, id)
        THEN [g |-> g, status |-> "DuplicateItemName", value |-> NoPort]
        ELSE IF r.status # "Ok" THEN [g |-> r.g, status |-> r.status, value |-> NoPort]
        ELSE [g |-> r.g, status |-> "Ok", value |-> id]

\* PduTriggering::connect_to_ecu
\* connect_to_ecu that propagates to every ISignalTriggering of the channel, not
\* only to the children of the PduTriggering
PduTriggering_connect_to_ecu_WholeChannel(g, pt, ecu, direction) ==
    LET self == g.pts[pt]
        existing == ExistingPort(g, self.ports, ecu, direction)
        port_name == self.name \o "_" \o PortSuffix(direction)
        pp_elem == [kind |-> "IPduPort",
                    CommunicationDirection |-> DirectionItem(direction)]
        id == PortPath(self.channel, ecu, port_name)
        g1 == [g EXCEPT !.ports = WithPort(@, id, pp_elem),
                        !.pts[pt].ports = Append(@, id)]
        all == SelectSeq([i \in 1..Len(g.sts) |-> i],
                         LAMBDA st : g.sts[st].channel = self.channel)
        r == ConnectSignalTriggerings(g1, all, ecu, direction, 1)
    IN  IF existing # NoPort
        THEN [g |-> g, status |-> "Ok", value |-> existing]
        ELSE IF ~HasEcuConnector(self.channel, ecu)
        THEN [g |-> g, status |-> "InvalidParameter", value |-> NoPort]
        ELSE IF PortExists(g, id)
        THEN [g |-> g, status |-> "DuplicateItemName", value |-> NoPort]
        ELSE IF r.status # "Ok" THEN [g |-> r.g, status |-> r.status, value |-> NoPort]
        ELSE [g |-> r.g, status |-> "Ok", value |-> id]

PduTriggering_connect_to_ecu(g, pt, ecu, direction) ==
    LET self == g.pts[pt]
        existing == ExistingPort(g, self.ports, ecu, direction)
        port_name == self.name \o "_" \o PortSuffix(direction)
        pp_elem == [kind |-> "IPduPort",
                    CommunicationDirection |-> DirectionItem(direction)]
        id == PortPath(self.channel, ecu, port_name)
        g1 == [g EXCEPT !.ports = WithPort(@, id, pp_elem),
                        !.pts[pt].ports = Append(@, id)]
        r == ConnectSignalTriggerings(g1, self.signal_triggerings, ecu, direction, 1)
    IN  IF existing # NoPort
        THEN [g |-> g, status |-> "Ok", value |-> existing]
        ELSE IF ~HasEcuConnector(self.channel, ecu)
        THEN [g |-> g, status |-> "InvalidParameter", value |-> NoPort]
        ELSE IF PortExists(g, id)
        THEN [g |-> g, status |-> "DuplicateItemName", value |-> NoPort]
        ELSE IF r.status # "Ok" THEN [g |-> r.g, status |-> r.status, value |-> NoPort]
        ELSE [g |-> r.g, status |-> "Ok", value |-> id]


\* Pdu::name
PduName(pdu) == pdu

\* the arena indices 1..Len(seq) as a sequence
Indices(seq) == [i \in 1..Len(seq) |-> i]

(***************************************************************************)
(* ISignalToIPduMapping                                                    *)
(***************************************************************************)

ByteOrders == {"MostSignificantByteFirst", "MostSignificantByteLast", "Opaque"}

TransferProperties ==
    {"Pending", "Triggered", "TriggeredOnChange",
     "TriggeredOnChangeWithoutRepetition", "TriggeredWithoutRepetition"}

\* From<ByteOrder> for EnumItem and TryFrom<EnumItem> for ByteOrder
ByteOrderItem(byte_order) ==
    CASE byte_order = "MostSignificantByteFirst" -> "MOST-SIGNIFICANT-BYTE-FIRST"
      [] byte_order = "MostSignificantByteLast" -> "MOST-SIGNIFICANT-BYTE-LAST"
      [] OTHER -> "OPAQUE"

ByteOrderOfItem(item) ==
    CASE item = "MOST-SIGNIFICANT-BYTE-FIRST" -> "MostSignificantByteFirst"
      [] item = "MOST-SIGNIFICANT-BYTE-LAST" -> "MostSignificantByteLast"
      [] item = "OPAQUE" -> "Opaque"
      [] OTHER -> "<none>"

\* From<TransferProperty> for EnumItem
TransferPropertyItem(value) ==
    CASE value = "Pending" -> "PENDING"
      [] value = "Triggered" -> "TRIGGERED"
      [] value = "TriggeredOnChange" -> "TRIGGERED-ON-CHANGE"
      [] value = "TriggeredOnChangeWithoutRepetition"
            -> "TRIGGERED-ON-CHANGE-WITHOUT-REPETITION"
      [] OTHER -> "TRIGGERED-WITHOUT-REPETITION"

\* TryFrom<EnumItem> for TransferProperty, "<none>" for the conversion error
TransferPropertyOfItem(value) ==
    CASE value = "PENDING" -> "Pending"
      [] value = "TRIGGERED" -> "Triggered"
      [] value = "TRIGGERED-ON-CHANGE" -> "TriggeredOnChange"
      [] value = "TRIGGERED-ON-CHANGE-WITHOUT-REPETITION"
            -> "TriggeredOnChangeWithoutRepetition"
      [] value = "TRIGGERED-WITHOUT-REPETITION" -> "TriggeredWithoutRepetition"
      [] OTHER -> "<none>"

\* CharacterData::decode_integer::<u32>() of the character data of a sub-element,
\* NoValue for None; every unsigned value the model can hold fits a u32
decode_integer_u32(cdata) ==
    IF cdata >= 0 THEN cdata ELSE NoValue

\* ISignalToIPduMapping::new: the element with its sub-elements; a sub-element
\* that is not created is NoValue
ISignalToIPduMapping_new(name, signal, start_position, byte_order, update_bit, transfer_property) ==
    [name |-> name,
     ISignalRef |-> signal,
     PackingByteOrder |-> ByteOrderItem(byte_order),
     StartPosition |-> start_position,
     TransferProperty |-> TransferPropertyItem(transfer_property),
     UpdateIndicationBitPosition |->
        IF update_bit # NoValue THEN update_bit ELSE NoValue]

\* ISignalToIPduMapping::signal
Mapping_signal(self) == self.ISignalRef

\* ISignalToIPduMapping::byte_order
Mapping_byte_order(self) == ByteOrderOfItem(self.PackingByteOrder)

\* ISignalToIPduMapping::start_position
Mapping_start_position(self) == decode_integer_u32(self.StartPosition)

\* ISignalToIPduMapping::update_bit: reads the StartPosition sub-element
Mapping_update_bit(self) == decode_integer_u32(self.StartPosition)

\* transfer_property reading the PackingByteOrder sub-element
Mapping_transfer_property_OtherElement(self) ==
    TransferPropertyOfItem(self.PackingByteOrder)

\* ISignalToIPduMapping::transfer_property
Mapping_transfer_property(self) == TransferPropertyOfItem(self.TransferProperty)

(***************************************************************************)
(* ISignalIPdu                                                             *)
(***************************************************************************)

\* ISignalIPdu::pdu_triggerings: the PduTriggerings whose IPduRef refers to the Pdu
pdu_triggerings(g, pdu) == SelectSeq(Indices(g.pts), LAMBDA i : g.pts[i].pdu = pdu)

\* the loop over the PduTriggerings in map_signal under another name
RECURSIVE MapSignalFanOut_All(_, _, _, _)
MapSignalFanOut_All(g, pts, signal, k) ==
    IF k > Len(pts) THEN [g |-> g, status |-> "Ok", value |-> 0]
    ELSE LET pt == pts[k]
             a == add_signal_triggering(g, pt, signal)
             c == ConnectToPduPorts(a.g, a.g.pts[pt].ports, a.value, 1)
         IN  IF a.status # "Ok" THEN [g |-> a.g, status |-> a.status, value |-> 0]
             ELSE IF c.status # "Ok" THEN [g |-> c.g, status |-> c.status, value |-> 0]
             ELSE MapSignalFanOut_All(c.g, pts, signal, k + 1)

\* the loop over the PduTriggerings in map_signal, ending after the first one
MapSignalFanOut_FirstOnly(g, pts, signal, k) ==
    IF pts = <<>> THEN [g |-> g, status |-> "Ok", value |-> 0]
    ELSE LET pt == pts[1]
             a == add_signal_triggering(g, pt, signal)
             c == ConnectToPduPorts(a.g, a.g.pts[pt].ports, a.value, 1)
         IN  IF a.status # "Ok" THEN [g |-> a.g, status |-> a.status, value |-> 0]
             ELSE [g |-> c.g, status |-> c.status, value |-> 0]

\* the loop over the PduTriggerings in map_signal, undoing on an error what the
\* earlier rounds created
MapSignalFanOut_Rollback(g, pts, signal, k) ==
    LET f == MapSignalFanOut_All(g, pts, signal, k)
    IN  IF f.status # "Ok" THEN [g |-> g, status |-> f.status, value |-> 0] ELSE f

\* the loop over the PduTriggerings in map_signal, from triggering number k on
RECURSIVE MapSignalFanOut(_, _, _, _)
MapSignalFanOut(g, pts, signal, k) ==
    IF k > Len(pts) THEN [g |-> g, status |-> "Ok", value |-> 0]
    ELSE LET pt == pts[k]
             a == add_signal_triggering(g, pt, signal)
             c == ConnectToPduPorts(a.g, a.g.pts[pt].ports, a.value, 1)
         IN  IF a.status # "Ok" THEN [g |-> a.g, status |-> a.status, value |-> 0]
             ELSE IF c.status # "Ok" THEN [g |-> c.g, status |-> c.status, value |-> 0]
             ELSE MapSignalFanOut(c.g, pts, signal, k + 1)

\* map_signal naming the mapping after the signal, without make_unique_name
map_signal_SignalName(g, maps, pdu, signal, start_position, byte_order, update_bit, transfer_property) ==
    LET signal_name == SignalName(signal)
        f == MapSignalFanOut(g, pdu_triggerings(g, pdu), signal, 1)
        name == signal_name
        mapping == ISignalToIPduMapping_new(name, signal, start_position, byte_order,
                                            update_bit, transfer_property)
    IN  IF signal_name = NoName
        THEN [g |-> g, maps |-> maps, status |-> "InvalidParameter", value |-> 0]
        ELSE IF f.status # "Ok"
        THEN [g |-> f.g, maps |-> maps, status |-> f.status, value |-> 0]
        ELSE IF name \in MappingNames(maps, pdu)
        THEN [g |-> f.g, maps |-> maps, status |-> "DuplicateItemName", value |-> 0]
        ELSE [g |-> f.g, maps |-> [maps EXCEPT ![pdu] = Append(@, mapping)],
              status |-> "Ok", value |-> Len(maps[pdu]) + 1]

\* map_signal without the check of the name of the signal
map_signal_NoNameCheck(g, maps, pdu, signal, start_position, byte_order, update_bit, transfer_property) ==
    LET signal_name == SignalName(signal)
        f == MapSignalFanOut(g, pdu_triggerings(g, pdu), signal, 1)
        name == make_unique_name(MappingNames(maps, pdu), signal_name)
        mapping == ISignalToIPduMapping_new(name, signal, start_position, byte_order,
                                            update_bit, transfer_property)
    IN  IF f.status # "Ok"
        THEN [g |-> f.g, maps |-> maps, status |-> f.status, value |-> 0]
        ELSE IF name \in MappingNames(maps, pdu)
        THEN [g |-> f.g, maps |-> maps, status |-> "DuplicateItemName", value |-> 0]
        ELSE [g |-> f.g, maps |-> [maps EXCEPT ![pdu] = Append(@, mapping)],
              status |-> "Ok", value |-> Len(maps[pdu]) + 1]

\* the bits of a signal mapped at start_position meet the bits of the mapping
Overlaps(mapping, signal, start_position) ==
    /\ start_position < mapping.StartPosition + SignalLength(mapping.ISignalRef)
    /\ mapping.StartPosition < start_position + SignalLength(signal)

\* map_signal with the check that its comment leaves out: a signal that
\* overlaps a mapped one is rejected
map_signal_RejectOverlap(g, maps, pdu, signal, start_position, byte_order, update_bit, transfer_property) ==
    LET signal_name == SignalName(signal)
        f == MapSignalFanOut(g, pdu_triggerings(g, pdu), signal, 1)
        name == make_unique_name(MappingNames(maps, pdu), signal_name)
        mapping == ISignalToIPduMapping_new(name, signal, start_position, byte_order,
                                            update_bit, transfer_property)
    IN  IF signal_name = NoName
        THEN [g |-> g, maps |-> maps, status |-> "InvalidParameter", value |-> 0]
        ELSE IF \E i \in DOMAIN maps[pdu] : Overlaps(maps[pdu][i], signal, start_position)
        THEN [g |-> g, maps |-> maps, status |-> "InvalidParameter", value |-> 0]
        ELSE IF f.status # "Ok"
        THEN [g |-> f.g, maps |-> maps, status |-> f.status, value |-> 0]
        ELSE IF name \in MappingNames(maps, pdu)
        THEN [g |-> f.g, maps |-> maps, status |-> "DuplicateItemName", value |-> 0]
        ELSE [g |-> f.g, maps |-> [maps EXCEPT ![pdu] = Append(@, mapping)],
              status |-> "Ok", value |-> Len(maps[pdu]) + 1]

\* ISignalIPdu::map_signal; the value is the position of the new mapping in
\* the ISignalToPduMappings of the Pdu
map_signal(g, maps, pdu, signal, start_position, byte_order, update_bit, transfer_property) ==
    LET signal_name == SignalName(signal)
        f == MapSignalFanOut(g, pdu_triggerings(g, pdu), signal, 1)
        name == make_unique_name(MappingNames(maps, pdu), signal_name)
        mapping == ISignalToIPduMapping_new(name, signal, start_position, byte_order,
                                            update_bit, transfer_property)
    IN  IF signal_name = NoName
        THEN [g |-> g, maps |-> maps, status |-> "InvalidParameter", value |-> 0]
        ELSE IF f.status # "Ok"
        THEN [g |-> f.g, maps |-> maps, status |-> f.status, value |-> 0]
        ELSE IF name \in MappingNames(maps, pdu)
        THEN [g |-> f.g, maps |-> maps, status |-> "DuplicateItemName", value |-> 0]
        ELSE [g |-> f.g, maps |-> [maps EXCEPT ![pdu] = Append(@, mapping)],
              status |-> "Ok", value |-> Len(maps[pdu]) + 1]

(***************************************************************************)
(* PduTriggering::new                                                      *)
(***************************************************************************)

\* PduTriggering::new without the back-fill
BackFill_None(g, pt, signal_mappings, i) == [g |-> g, status |-> "Ok", value |-> pt]

\* the back-fill loop over the mappings of an ISignalIPdu, from mapping i on
RECURSIVE BackFill(_, _, _, _)
BackFill(g, pt, signal_mappings, i) ==
    IF i > Len(signal_mappings) THEN [g |-> g, status |-> "Ok", value |-> pt]
    ELSE LET signal == Mapping_signal(signal_mappings[i])
             a == add_signal_triggering(g, pt, signal)
         IN  IF a.status # "Ok" THEN [g |-> a.g, status |-> a.status, value |-> 0]
             ELSE BackFill(a.g, pt, signal_mappings, i + 1)

\* new that gives the PduTriggering the port references of the first
\* PduTriggering the Pdu has already
PduTriggering_new_InheritPorts(g, maps, pdu, channel) ==
    LET pdu_name == PduName(pdu)
        pt_name == make_unique_name(ChannelNames(g, channel), "PT_" \o pdu_name)
        others == pdu_triggerings(g, pdu)
        pt_elem == [name |-> pt_name, channel |-> channel, pdu |-> pdu,
                    signal_triggerings |-> <<>>,
                    ports |-> IF others = <<>> THEN <<>> ELSE g.pts[others[1]].ports]
        pt == Len(g.pts) + 1
        g1 == [g EXCEPT !.pts = Append(@, pt_elem)]
    IN  IF pdu_name = NoName
        THEN [g |-> g, status |-> "InvalidParameter", value |-> 0]
        ELSE IF pt_name \in ChannelNames(g, channel)
        THEN [g |-> g, status |-> "DuplicateItemName", value |-> 0]
        ELSE IF PduVariant(pdu) = "ISignalIPdu"
        THEN BackFill(g1, pt, maps[pdu], 1)
        ELSE [g |-> g1, status |-> "Ok", value |-> pt]

PduTriggering_new(g, maps, pdu, channel) ==
    LET pdu_name == PduName(pdu)
        pt_name == make_unique_name(ChannelNames(g, channel), "PT_" \o pdu_name)
        pt_elem == [name |-> pt_name, channel |-> channel, pdu |-> pdu,
                    signal_triggerings |-> <<>>, ports |-> <<>>]
        pt == Len(g.pts) + 1
        g1 == [g EXCEPT !.pts = Append(@, pt_elem)]
    IN  IF pdu_name = NoName
        THEN [g |-> g, status |-> "InvalidParameter", value |-> 0]
        ELSE IF pt_name \in ChannelNames(g, channel)
        THEN [g |-> g, status |-> "DuplicateItemName", value |-> 0]
        ELSE IF PduVariant(pdu) = "ISignalIPdu"
        THEN BackFill(g1, pt, maps[pdu], 1)
        ELSE [g |-> g1, status |-> "Ok", value |-> pt]

(***************************************************************************)
(* The elements of the packages: Signal, SignalGroup and the Pdu types     *)
(***************************************************************************)

Packages == {"a", "b"}
ElementNames == {"x", "y"}
BitLengths == {8}

\* the path of an element of a package
ElementPath(package, name) == <<package, name>>
NoElement == <<>>

\* an element of a package with its sub-elements; a sub-element that does not
\* exist is NoName, a reference that does not exist is NoElement
NewElement(kind) ==
    [kind |-> kind, Length |-> NoName, Ref |-> NoElement, DataTypePolicy |-> NoName]

\* the packages with one more element, or with an element changed
WithElement(el, path, elem) ==
    [x \in DOMAIN el \cup {path} |-> IF x = path THEN elem ELSE el[x]]

\* Signal::new without the comparison of the two packages
Signal_new_NoScopeCheck(el, name, bit_length, sig_package, sys_package) ==
    LET elem_isignal == ElementPath(sig_package, name)
        elem_syssignal == ElementPath(sys_package, name)
        el1 == WithElement(el, elem_isignal, NewElement("ISignal"))
        el2 == WithElement(el1, elem_syssignal, NewElement("SystemSignal"))
        el3 == [el2 EXCEPT ![elem_isignal].Length = ToString(bit_length),
                           ![elem_isignal].Ref = elem_syssignal,
                           ![elem_isignal].DataTypePolicy = "OVERRIDE"]
    IN  IF elem_isignal \in DOMAIN el
        THEN [el |-> el, status |-> "DuplicateItemName", value |-> NoElement]
        ELSE IF elem_syssignal \in DOMAIN el1
        THEN [el |-> el1, status |-> "DuplicateItemName", value |-> NoElement]
        ELSE [el |-> el3, status |-> "Ok", value |-> elem_isignal]

\* Signal::new
Signal_new(el, name, bit_length, sig_package, sys_package) ==
    LET elem_isignal == ElementPath(sig_package, name)
        elem_syssignal == ElementPath(sys_package, name)
        el1 == WithElement(el, elem_isignal, NewElement("ISignal"))
        el2 == WithElement(el1, elem_syssignal, NewElement("SystemSignal"))
        el3 == [el2 EXCEPT ![elem_isignal].Length = ToString(bit_length),
                           ![elem_isignal].Ref = elem_syssignal,
                           ![elem_isignal].DataTypePolicy = "OVERRIDE"]
    IN  IF sig_package = sys_package
        THEN [el |-> el, status |-> "InvalidParameter", value |-> NoElement]
        ELSE IF elem_isignal \in DOMAIN el
        THEN [el |-> el, status |-> "DuplicateItemName", value |-> NoElement]
        ELSE IF elem_syssignal \in DOMAIN el1
        THEN [el |-> el1, status |-> "DuplicateItemName", value |-> NoElement]
        ELSE [el |-> el3, status |-> "Ok", value |-> elem_isignal]

\* SignalGroup::new
SignalGroup_new(el, name, sig_package, sys_package) ==
    LET elem_isiggrp == ElementPath(sig_package, name)
        elem_syssiggrp == ElementPath(sys_package, name)
        el1 == WithElement(el, elem_isiggrp, NewElement("ISignalGroup"))
        el2 == WithElement(el1, elem_syssiggrp, NewElement("SystemSignalGroup"))
        el3 == [el2 EXCEPT ![elem_isiggrp].Ref = elem_syssiggrp]
    IN  IF sig_package = sys_package
        THEN [el |-> el, status |-> "InvalidParameter", value |-> NoElement]
        ELSE IF elem_isiggrp \in DOMAIN el
        THEN [el |-> el, status |-> "DuplicateItemName", value |-> NoElement]
        ELSE IF elem_syssiggrp \in DOMAIN el1
        THEN [el |-> el1, status |-> "DuplicateItemName", value |-> NoElement]
        ELSE [el |-> el3, status |-> "Ok", value |-> elem_isiggrp]

(***************************************************************************)
(* The Pdu types and the enum Pdu                                          *)
(***************************************************************************)

\* the variants of enum Pdu, which are also the names of the Pdu types
PduVariants ==
    {"ISignalIPdu", "NmPdu", "NPdu", "DcmIPdu", "GeneralPurposePdu",
     "GeneralPurposeIPdu", "ContainerIPdu", "SecuredIPdu", "MultiplexedIPdu"}

PduLengths == {8}
\* the names given to Pdus
PduNames == {"x"}

\* the ElementName that the new() of each Pdu type creates the element with
ConstructorElementName(type) ==
    CASE type = "ISignalIPdu" -> "ISignalIPdu"
      [] type = "NmPdu" -> "NmPdu"
      [] type = "NPdu" -> "NPdu"
      [] type = "DcmIPdu" -> "DcmIPdu"
      [] type = "GeneralPurposePdu" -> "GeneralPurposePdu"
      [] type = "GeneralPurposeIPdu" -> "GeneralPurposeIPdu"
      [] type = "ContainerIPdu" -> "ContainerIPdu"
      [] type = "SecuredIPdu" -> "SecuredIPdu"
      [] type = "MultiplexedIPdu" -> "MultiplexedIPdu"

\* the ElementName that abstraction_element! is given for each Pdu type
AbstractionElementName(type) ==
    CASE type = "ISignalIPdu" -> "ISignalIPdu"
      [] type = "NmPdu" -> "NmPdu"
      [] type = "NPdu" -> "NPdu"
      [] type = "DcmIPdu" -> "DcmIPdu"
      [] type = "GeneralPurposePdu" -> "GeneralPurposePdu"
      [] type = "GeneralPurposeIPdu" -> "GeneralPurposeIPdu"
      [] type = "ContainerIPdu" -> "ContainerIPdu"
      [] type = "SecuredIPdu" -> "SecuredIPdu"
      [] type = "MultiplexedIPdu" -> "MultiplexedIPdu"

\* <Pdu type>::new(name, package, length); a value of a Pdu type is the type
\* and the element that it wraps
Pdu_new(el, type, name, package, length) ==
    LET elem_pdu == ElementPath(package, name)
        el1 == WithElement(el, elem_pdu, NewElement(ConstructorElementName(type)))
        el2 == [el1 EXCEPT ![elem_pdu].Length = ToString(length)]
    IN  IF elem_pdu \in DOMAIN el
        THEN [el |-> el, status |-> "DuplicateItemName", value |-> NoElement]
        ELSE [el |-> el2, status |-> "Ok",
              value |-> [type |-> type, element |-> elem_pdu]]

\* From<Pdu type> for Pdu: the variant that wraps a value of the type
Pdu_from(value) ==
    CASE value.type = "ISignalIPdu" -> [variant |-> "ISignalIPdu", inner |-> value]
      [] value.type = "NmPdu" -> [variant |-> "NmPdu", inner |-> value]
      [] value.type = "NPdu" -> [variant |-> "NPdu", inner |-> value]
      [] value.type = "DcmIPdu" -> [variant |-> "DcmIPdu", inner |-> value]
      [] value.type = "GeneralPurposePdu"
            -> [variant |-> "GeneralPurposePdu", inner |-> value]
      [] value.type = "GeneralPurposeIPdu"
            -> [variant |-> "GeneralPurposeIPdu", inner |-> value]
      [] value.type = "ContainerIPdu" -> [variant |-> "ContainerIPdu", inner |-> value]
      [] value.type = "SecuredIPdu" -> [variant |-> "SecuredIPdu", inner |-> value]
      [] value.type = "MultiplexedIPdu"
            -> [variant |-> "MultiplexedIPdu", inner |-> value]

\* AbstractionElement::element of a Pdu: the element of the wrapped value
Pdu_element(pdu) == pdu.inner.element

\* the ConversionError with the element and the name of the destination type
ConversionError(element, dest) == [element |-> element, dest |-> dest]

\* TryFrom<Element> for a Pdu type, as abstraction_element! defines it
Type_try_from(el, type, element) ==
    IF el[element].kind = AbstractionElementName(type)
    THEN [status |-> "Ok", value |-> [type |-> type, element |-> element]]
    ELSE [status |-> "ConversionError", value |-> ConversionError(element, type)]

\* `Ok(<Pdu type>::try_from(element)?.into())`
TryInto(el, type, element) ==
    LET r == Type_try_from(el, type, element)
    IN  IF r.status # "Ok" THEN r ELSE [status |-> "Ok", value |-> Pdu_from(r.value)]

\* TryFrom<Element> for Pdu without the arm of SecuredIPdu
Pdu_try_from_NoSecuredIPdu(el, element) ==
    LET element_name == el[element].kind
    IN  CASE element_name = "ISignalIPdu" -> TryInto(el, "ISignalIPdu", element)
          [] element_name = "NmPdu" -> TryInto(el, "NmPdu", element)
          [] element_name = "NPdu" -> TryInto(el, "NPdu", element)
          [] element_name = "DcmIPdu" -> TryInto(el, "DcmIPdu", element)
          [] element_name = "GeneralPurposePdu" -> TryInto(el, "GeneralPurposePdu", element)
          [] element_name = "GeneralPurposeIPdu"
                -> TryInto(el, "GeneralPurposeIPdu", element)
          [] element_name = "ContainerIPdu" -> TryInto(el, "ContainerIPdu", element)
          [] element_name = "MultiplexedIPdu" -> TryInto(el, "MultiplexedIPdu", element)
          [] OTHER -> [status |-> "ConversionError",
                       value |-> ConversionError(element, "Pdu")]

\* TryFrom<Element> for Pdu
Pdu_try_from(el, element) ==
    LET element_name == el[element].kind
    IN  CASE element_name = "ISignalIPdu" -> TryInto(el, "ISignalIPdu", element)
          [] element_name = "NmPdu" -> TryInto(el, "NmPdu", element)
          [] element_name = "NPdu" -> TryInto(el, "NPdu", element)
          [] element_name = "DcmIPdu" -> TryInto(el, "DcmIPdu", element)
          [] element_name = "GeneralPurposePdu" -> TryInto(el, "GeneralPurposePdu", element)
          [] element_name = "GeneralPurposeIPdu"
                -> TryInto(el, "GeneralPurposeIPdu", element)
          [] element_name = "ContainerIPdu" -> TryInto(el, "ContainerIPdu", element)
          [] element_name = "SecuredIPdu" -> TryInto(el, "SecuredIPdu", element)
          [] element_name = "MultiplexedIPdu" -> TryInto(el, "MultiplexedIPdu", element)
          [] OTHER -> [status |-> "ConversionError",
                       value |-> ConversionError(element, "Pdu")]

(***************************************************************************)
(* The operations as actions                                               *)
(***************************************************************************)

TotalMappings == Len(mappings["p"])

\* the number of elements that the operations have created
Size(g, maps) ==
    Len(g.pts) + Len(g.sts) + Cardinality(DOMAIN g.ports) + Len(maps["p"])

\* the graph after an operation
SetGraph(g) ==
    /\ pduTriggerings' = g.pts
    /\ signalTriggerings' = g.sts
    /\ ports' = g.ports

CreatePduTriggering(pdu, channel) ==
    \E r \in {PduTriggering_new(Graph, mappings, pdu, channel)} :
        /\ Len(pduTriggerings) < MaxPduTriggerings
        /\ Size(r.g, mappings) <= MaxElements
        /\ SetGraph(r.g)
        /\ ret' = [op |-> "PduTriggering::new", args |-> <<pdu, channel>>,
                   status |-> r.status, value |-> r.value]
        /\ UNCHANGED <<connectors, mappings, elements>>

MapSignal(pdu, signal, start_position, byte_order, update_bit, transfer_property) ==
    \E r \in {map_signal(Graph, mappings, pdu, signal, start_position, byte_order,
                        update_bit, transfer_property)} :
        /\ Size(r.g, r.maps) <= MaxElements
        /\ SetGraph(r.g)
        /\ mappings' = r.maps
        /\ ret' = [op |-> "map_signal",
                   args |-> <<pdu, signal, start_position, byte_order, update_bit,
                              transfer_property>>,
                   status |-> r.status, value |-> r.value]
        /\ UNCHANGED <<connectors, elements>>

PduConnectToEcu(pt, ecu, direction) ==
    \E r \in {PduTriggering_connect_to_ecu(Graph, pt, ecu, direction)} :
        /\ Size(r.g, mappings) <= MaxElements
        /\ SetGraph(r.g)
        /\ ret' = [op |-> "PduTriggering::connect_to_ecu",
                   args |-> <<pt, ecu, direction>>, status |-> r.status, value |-> r.value]
        /\ UNCHANGED <<connectors, mappings, elements>>

SignalConnectToEcu(st, ecu, direction) ==
    \E r \in {ISignalTriggering_connect_to_ecu(Graph, st, ecu, direction)} :
        /\ Size(r.g, mappings) <= MaxElements
        /\ SetGraph(r.g)
        /\ ret' = [op |-> "ISignalTriggering::connect_to_ecu",
                   args |-> <<st, ecu, direction>>, status |-> r.status, value |-> r.value]
        /\ UNCHANGED <<connectors, mappings, elements>>


Init ==
    /\ connectors = Topology
    /\ mappings = [pdu \in ISignalIPdus |-> <<>>]
    /\ pduTriggerings = <<>>
    /\ signalTriggerings = <<>>
    /\ ports = <<>>   \* no port element
    /\ elements = <<>>
    /\ ret = [op |-> "none", args |-> <<>>, status |-> "Ok", value |-> 0]

DoCreatePduTriggering ==
    \E pdu \in ISignalIPdus, channel \in Channels : CreatePduTriggering(pdu, channel)

\* in Spec the attributes of a mapping are fixed; SpecAttr varies them
DoMapSignal ==
    \E pdu \in ISignalIPdus, signal \in Signals :
        MapSignal(pdu, signal, 0, "MostSignificantByteLast", NoValue, "Pending")

DoPduConnectToEcu ==
    \E pt \in DOMAIN pduTriggerings, ecu \in Ecus, direction \in Directions :
        PduConnectToEcu(pt, ecu, direction)

DoSignalConnectToEcu ==
    \E st \in DOMAIN signalTriggerings, ecu \in Ecus, direction \in Directions :
        SignalConnectToEcu(st, ecu, direction)

Next ==
    \/ DoCreatePduTriggering
    \/ DoMapSignal
    \/ DoPduConnectToEcu
    \/ DoSignalConnectToEcu

Spec == Init /\ [][Next]_vars

\* map_signal with every combination of attribute values
DoMapSignalAttr ==
    \E pdu \in ISignalIPdus, signal \in Signals, start_position \in StartPositions,
       byte_order \in ByteOrders, update_bit \in UpdateBits,
       transfer_property \in TransferProperties :
        /\ TotalMappings < MaxAttrMappings
        /\ MapSignal(pdu, signal, start_position, byte_order, update_bit,
                     transfer_property)

NextAttr == DoMapSignalAttr

SpecAttr == Init /\ [][NextAttr]_vars

\* map_signal with start positions that put signals on the bits of others
DoMapSignalAt ==
    \E pdu \in ISignalIPdus, signal \in Signals, start_position \in OverlapStartPositions :
        /\ TotalMappings < MaxOverlapMappings
        /\ MapSignal(pdu, signal, start_position, "MostSignificantByteLast", NoValue,
                     "Pending")

NextOverlap == DoMapSignalAt

SpecOverlap == Init /\ [][NextOverlap]_vars

(***************************************************************************)
(* The operations on a model in which elements that no triggering refers   *)
(* to hold names below the connector of ECU A on channel c1, as in a model *)
(* that was loaded from a file: create_named_sub_element of a port of such *)
(* a name fails, which is an error inside the loops over the triggerings.  *)
(***************************************************************************)

\* SpecTrigger: PduTriggerings of Pdus of both kinds, an ISignalIPdu and a Pdu
\* that is none
TriggerCreatePduTriggering ==
    \E pdu \in Pdus, channel \in Channels :
        \E r \in {PduTriggering_new(Graph, mappings, pdu, channel)} :
            /\ Len(pduTriggerings) < MaxTriggerPduTriggerings
            /\ Size(r.g, mappings) <= MaxTriggerElements
            /\ SetGraph(r.g)
            /\ ret' = [op |-> "PduTriggering::new", args |-> <<pdu, channel>>,
                       status |-> r.status, value |-> r.value]
            /\ UNCHANGED <<connectors, mappings, elements>>

TriggerMapSignal ==
    \E pdu \in ISignalIPdus, signal \in Signals :
        \E r \in {map_signal(Graph, mappings, pdu, signal, 0, "MostSignificantByteLast",
                             NoValue, "Pending")} :
            /\ Size(r.g, r.maps) <= MaxTriggerElements
            /\ SetGraph(r.g)
            /\ mappings' = r.maps
            /\ ret' = [op |-> "map_signal",
                       args |-> <<pdu, signal, 0, "MostSignificantByteLast", NoValue,
                                  "Pending">>,
                       status |-> r.status, value |-> r.value]
            /\ UNCHANGED <<connectors, elements>>

TriggerPduConnectToEcu ==
    \E pt \in DOMAIN pduTriggerings, ecu \in Ecus, direction \in Directions :
        \E r \in {PduTriggering_connect_to_ecu(Graph, pt, ecu, direction)} :
            /\ Size(r.g, mappings) <= MaxTriggerElements
            /\ SetGraph(r.g)
            /\ ret' = [op |-> "PduTriggering::connect_to_ecu",
                       args |-> <<pt, ecu, direction>>, status |-> r.status,
                       value |-> r.value]
            /\ UNCHANGED <<connectors, mappings, elements>>

NextTrigger ==
    \/ TriggerCreatePduTriggering
    \/ TriggerMapSignal
    \/ TriggerPduConnectToEcu

SpecTrigger == Init /\ [][NextTrigger]_vars

\* an element of another kind that holds a name below a connector
ForeignElement == [kind |-> "FramePort", CommunicationDirection |-> "IN"]

\* the names such elements may have
ForeignNames == {"ST_s_Rx", "ST_s_1_Rx"}

InitFault ==
    /\ connectors = Topology
    /\ mappings = [pdu \in ISignalIPdus |-> <<>>]
    /\ pduTriggerings = <<>>
    /\ signalTriggerings = <<>>
    /\ \E names \in SUBSET ForeignNames :
            ports = [path \in {PortPath("c1", "A", name) : name \in names}
                        |-> ForeignElement]
    /\ elements = <<>>
    /\ ret = [op |-> "none", args |-> <<>>, status |-> "Ok", value |-> 0]

FaultCreatePduTriggering ==
    \E r \in {PduTriggering_new(Graph, mappings, "p", "c1")} :
        /\ Len(pduTriggerings) < MaxFaultPduTriggerings
        /\ Size(r.g, mappings) <= MaxFaultElements
        /\ SetGraph(r.g)
        /\ ret' = [op |-> "PduTriggering::new", args |-> <<"p", "c1">>,
                   status |-> r.status, value |-> r.value]
        /\ UNCHANGED <<connectors, mappings, elements>>

FaultMapSignal ==
    \E signal \in {1, 3} :
        \E r \in {map_signal(Graph, mappings, "p", signal, 0, "MostSignificantByteLast",
                             NoValue, "Pending")} :
            /\ Size(r.g, r.maps) <= MaxFaultElements
            /\ SetGraph(r.g)
            /\ mappings' = r.maps
            /\ ret' = [op |-> "map_signal",
                       args |-> <<"p", signal, 0, "MostSignificantByteLast", NoValue,
                                  "Pending">>,
                       status |-> r.status, value |-> r.value]
            /\ UNCHANGED <<connectors, elements>>

FaultPduConnectToEcu ==
    \E pt \in DOMAIN pduTriggerings, ecu \in Ecus, direction \in Directions :
        \E r \in {PduTriggering_connect_to_ecu(Graph, pt, ecu, direction)} :
            /\ Size(r.g, mappings) <= MaxFaultElements
            /\ SetGraph(r.g)
            /\ ret' = [op |-> "PduTriggering::connect_to_ecu",
                       args |-> <<pt, ecu, direction>>, status |-> r.status,
                       value |-> r.value]
            /\ UNCHANGED <<connectors, mappings, elements>>

FaultSignalConnectToEcu ==
    \E st \in DOMAIN signalTriggerings, ecu \in Ecus, direction \in Directions :
        \E r \in {ISignalTriggering_connect_to_ecu(Graph, st, ecu, direction)} :
            /\ Size(r.g, mappings) <= MaxFaultElements
            /\ SetGraph(r.g)
            /\ ret' = [op |-> "ISignalTriggering::connect_to_ecu",
                       args |-> <<st, ecu, direction>>, status |-> r.status,
                       value |-> r.value]
            /\ UNCHANGED <<connectors, mappings, elements>>

NextFault ==
    \/ FaultCreatePduTriggering
    \/ FaultMapSignal
    \/ FaultPduConnectToEcu
    \/ FaultSignalConnectToEcu

SpecFault == InitFault /\ [][NextFault]_vars

(***************************************************************************)
(* The operations on the packages.  The elements made here stand beside    *)
(* the fixed Pdu and the fixed signals of the triggering operations.       *)
(***************************************************************************)

CreateSignal(name, bit_length, sig_package, sys_package) ==
    \E r \in {Signal_new(elements, name, bit_length, sig_package, sys_package)} :
        /\ Cardinality(DOMAIN r.el) <= MaxPackageElements
        /\ elements' = r.el
        /\ ret' = [op |-> "Signal::new",
                   args |-> <<name, bit_length, sig_package, sys_package>>,
                   status |-> r.status, value |-> r.value]
        /\ UNCHANGED <<connectors, mappings, pduTriggerings, signalTriggerings, ports>>

CreateSignalGroup(name, sig_package, sys_package) ==
    \E r \in {SignalGroup_new(elements, name, sig_package, sys_package)} :
        /\ Cardinality(DOMAIN r.el) <= MaxPackageElements
        /\ elements' = r.el
        /\ ret' = [op |-> "SignalGroup::new", args |-> <<name, sig_package, sys_package>>,
                   status |-> r.status, value |-> r.value]
        /\ UNCHANGED <<connectors, mappings, pduTriggerings, signalTriggerings, ports>>

\* <Pdu type>::new and the conversion of the new value to Pdu
CreatePdu(type, name, package, length) ==
    \E r \in {Pdu_new(elements, type, name, package, length)} :
        /\ Cardinality(DOMAIN r.el) <= MaxPackageElements
        /\ elements' = r.el
        /\ ret' = [op |-> "Pdu::from", args |-> <<type, name, package, length>>,
                   status |-> r.status,
                   value |-> IF r.status = "Ok" THEN Pdu_from(r.value) ELSE r.value]
        /\ UNCHANGED <<connectors, mappings, pduTriggerings, signalTriggerings, ports>>

\* Pdu::try_from(element) for an element of a package
ConvertToPdu(element) ==
    \E r \in {Pdu_try_from(elements, element)} :
        /\ ret' = [op |-> "Pdu::try_from", args |-> <<element>>,
                   status |-> r.status, value |-> r.value]
        /\ UNCHANGED <<connectors, mappings, pduTriggerings, signalTriggerings, ports,
                       elements>>

\* <Pdu type>::try_from(element) for an element of a package
ConvertToType(type, element) ==
    \E r \in {Type_try_from(elements, type, element)} :
        /\ ret' = [op |-> "Type::try_from", args |-> <<element, type>>,
                   status |-> r.status, value |-> r.value]
        /\ UNCHANGED <<connectors, mappings, pduTriggerings, signalTriggerings, ports,
                       elements>>

DoCreatePdu ==
    \E type \in PduVariants, name \in PduNames, package \in Packages,
       length \in PduLengths :
        CreatePdu(type, name, package, length)

DoConvertToPdu == \E element \in DOMAIN elements : ConvertToPdu(element)

DoConvertToType ==
    \E type \in PduVariants, element \in DOMAIN elements : ConvertToType(type, element)

DoCreateSignal ==
    \E name \in ElementNames, bit_length \in BitLengths,
       sig_package \in Packages, sys_package \in Packages :
        CreateSignal(name, bit_length, sig_package, sys_package)

DoCreateSignalGroup ==
    \E name \in ElementNames, sig_package \in Packages, sys_package \in Packages :
        CreateSignalGroup(name, sig_package, sys_package)

NextElements ==
    \/ DoCreateSignal
    \/ DoCreateSignalGroup
    \/ DoCreatePdu
    \/ DoConvertToPdu
    \/ DoConvertToType

SpecElements == Init /\ [][NextElements]_vars

(***************************************************************************)
(* Notions the properties are stated with                                  *)
(***************************************************************************)

\* the graph after the step
GraphNext == [pts |-> pduTriggerings', sts |-> signalTriggerings', ports |-> ports']

\* the (ECU, direction) pairs of the ports of a PduTriggering / ISignalTriggering
PtPairs(g, pt) == PortPairs(g, g.pts[pt].ports)
StPairs(g, st) == PortPairs(g, g.sts[st].ports)

\* the child ISignalTriggerings of a PduTriggering
Children(g, pt) == {g.pts[pt].signal_triggerings[i] : i \in DOMAIN g.pts[pt].signal_triggerings}

\* the last element of a non-empty sequence
Last(seq) == seq[Len(seq)]

GraphVars == <<mappings, pduTriggerings, signalTriggerings, ports>>

(***************************************************************************)
(* C1                                                                      *)
(***************************************************************************)

C1_Step ==
    (ret'.op = "map_signal" /\ ret'.status = "Ok") =>
        LET pdu == ret'.args[1]
            signal == ret'.args[2]
            pts == pdu_triggerings(Graph, pdu)
            new == DOMAIN signalTriggerings' \ DOMAIN signalTriggerings
        IN  /\ Cardinality(new) = Len(pts)
            /\ DOMAIN pduTriggerings' = DOMAIN pduTriggerings
            /\ \A st \in DOMAIN signalTriggerings :
                    signalTriggerings'[st] = signalTriggerings[st]
            /\ \A pt \in DOMAIN pduTriggerings :
                    LET before == pduTriggerings[pt].signal_triggerings
                        after == pduTriggerings'[pt].signal_triggerings
                    IN  IF pduTriggerings[pt].pdu = pdu
                        THEN /\ Len(after) = Len(before) + 1
                             /\ SubSeq(after, 1, Len(before)) = before
                             /\ Last(after) \in new
                             /\ signalTriggerings'[Last(after)].signal = signal
                             /\ StPairs(GraphNext, Last(after)) = PtPairs(Graph, pt)
                             /\ pduTriggerings'[pt].ports = pduTriggerings[pt].ports
                        ELSE pduTriggerings'[pt] = pduTriggerings[pt]
            /\ \A pt1, pt2 \in DOMAIN pduTriggerings :
                    (pt1 # pt2 /\ pduTriggerings[pt1].pdu = pdu
                               /\ pduTriggerings[pt2].pdu = pdu)
                    => Last(pduTriggerings'[pt1].signal_triggerings)
                        # Last(pduTriggerings'[pt2].signal_triggerings)

\* C1: a successful map_signal on a Pdu with N PduTriggerings creates exactly N
\* new ISignalTriggerings of the signal, one appended to the children of each of
\* those PduTriggerings, and the (ECU, direction) pairs of each new
\* ISignalTriggering are those its PduTriggering had when map_signal was called.
C1_MapSignalFansOut == [][C1_Step]_vars

\* map_signal has returned on a Pdu with two PduTriggerings that both have a
\* port: each has got a child with a port
C1_Witness ==
    /\ ret.op = "map_signal" /\ ret.status = "Ok"
    /\ Len(pduTriggerings) = 2
    /\ \A pt \in DOMAIN pduTriggerings :
        /\ pduTriggerings[pt].ports # <<>>
        /\ Len(pduTriggerings[pt].signal_triggerings) = 1
        /\ StPairs(Graph, pduTriggerings[pt].signal_triggerings[1]) # {}

(***************************************************************************)
(* C2                                                                      *)
(***************************************************************************)

\* a PduTriggering and each of its children have the same (ECU, direction) pairs
Consistent(g) ==
    \A pt \in DOMAIN g.pts : \A st \in Children(g, pt) : StPairs(g, st) = PtPairs(g, pt)

C4_Call(refs, refsNext, ecu, direction) ==
    LET existing == ExistingPort(Graph, refs, ecu, direction)
    IN  /\ existing # NoPort =>
            /\ ret'.status = "Ok"
            /\ ret'.value = existing
            /\ UNCHANGED GraphVars
        /\ (existing = NoPort /\ ret'.status = "Ok") =>
            /\ ret'.value \notin DOMAIN ports
            /\ ret'.value \in DOMAIN ports'
            /\ ExistingPort(GraphNext, refsNext, ecu, direction) = ret'.value

C4_Step ==
    /\ ret'.op = "PduTriggering::connect_to_ecu" =>
        C4_Call(pduTriggerings[ret'.args[1]].ports, pduTriggerings'[ret'.args[1]].ports,
                ret'.args[2], ret'.args[3])
    /\ ret'.op = "ISignalTriggering::connect_to_ecu" =>
        C4_Call(signalTriggerings[ret'.args[1]].ports,
                signalTriggerings'[ret'.args[1]].ports, ret'.args[2], ret'.args[3])

\* C4: connect_to_ecu(ecu, direction) on a PduTriggering or ISignalTriggering
\* that has a port for (ecu, direction) returns that port and changes nothing in
\* the graph; the port it finds is the one the call that created it returned.
C4_ConnectIdempotent == [][C4_Step]_vars

\* ISignalTriggering.connect_to_ecu has returned for a pair that the
\* PduTriggering of the ISignalTriggering has too: the port existed already
C4_Witness ==
    /\ ret.op = "ISignalTriggering::connect_to_ecu" /\ ret.status = "Ok"
    /\ \E pt \in DOMAIN pduTriggerings :
        /\ ret.args[1] \in Children(Graph, pt)
        /\ <<ret.args[2], ret.args[3]>> \in PtPairs(Graph, pt)

(***************************************************************************)
(* C5                                                                      *)
(***************************************************************************)

\* no two port references of the list are for the same (ECU, direction)
OnePortPerPair(g, refs) == Cardinality(PortPairs(g, refs)) = Len(refs)

\* C5: every PduTriggering and every ISignalTriggering has at most one port per
\* (ECU, direction) pair.
C5_OnePortPerPair ==
    /\ \A pt \in DOMAIN pduTriggerings : OnePortPerPair(Graph, pduTriggerings[pt].ports)
    /\ \A st \in DOMAIN signalTriggerings :
            OnePortPerPair(Graph, signalTriggerings[st].ports)

\* map_signal has returned on a Pdu whose PduTriggering has two ports: the new
\* ISignalTriggering was connected twice for each of them
C5_Witness ==
    /\ ret.op = "map_signal" /\ ret.status = "Ok"
    /\ \E pt \in DOMAIN pduTriggerings :
        /\ Len(pduTriggerings[pt].ports) = 2
        /\ pduTriggerings[pt].signal_triggerings # <<>>
        /\ Len(signalTriggerings[Last(pduTriggerings[pt].signal_triggerings)].ports) = 2

(***************************************************************************)
(* C6                                                                      *)
(***************************************************************************)

\* C6: every PduTriggering of an ISignalIPdu has, for every mapping of the Pdu,
\* a child ISignalTriggering of the mapped signal.
C6_MappedSignalsTriggered ==
    \A pt \in DOMAIN pduTriggerings :
        pduTriggerings[pt].pdu \in ISignalIPdus =>
            \A i \in DOMAIN mappings[pduTriggerings[pt].pdu] :
                \E st \in Children(Graph, pt) :
                    signalTriggerings[st].signal
                        = Mapping_signal(mappings[pduTriggerings[pt].pdu][i])

\* a second PduTriggering has been created for a Pdu that has mappings of both
\* signals, one added before the first PduTriggering existed and one after it;
\* no ECU is connected
C6_Witness ==
    /\ ret.op = "PduTriggering::new" /\ ret.status = "Ok"
    /\ Len(pduTriggerings) = 2
    /\ Len(mappings["p"]) = 2
    /\ Mapping_signal(mappings["p"][1]) # Mapping_signal(mappings["p"][2])
    /\ pduTriggerings[1].signal_triggerings = <<1, 2>>
    /\ Len(pduTriggerings[2].signal_triggerings) = 2
    /\ DOMAIN ports = {}

(***************************************************************************)
(* C7                                                                      *)
(***************************************************************************)

C7_Call(channel, refs, ecu, direction) ==
    (ExistingPort(Graph, refs, ecu, direction) = NoPort /\ ~HasEcuConnector(channel, ecu))
    => /\ ret'.status = "InvalidParameter"
       /\ UNCHANGED GraphVars

C7_Step ==
    /\ ret'.op = "PduTriggering::connect_to_ecu" =>
        C7_Call(pduTriggerings[ret'.args[1]].channel, pduTriggerings[ret'.args[1]].ports,
                ret'.args[2], ret'.args[3])
    /\ ret'.op = "ISignalTriggering::connect_to_ecu" =>
        C7_Call(signalTriggerings[ret'.args[1]].channel,
                signalTriggerings[ret'.args[1]].ports, ret'.args[2], ret'.args[3])

\* C7: connect_to_ecu(ecu, direction) on a triggering without a port for
\* (ecu, direction), for an ECU that has no connector on the channel of the
\* triggering, fails with InvalidParameter and changes nothing in the graph.
C7_UnconnectedEcuRejected == [][C7_Step]_vars

\* PduTriggering.connect_to_ecu has failed on a PduTriggering that has a child
C7_Witness ==
    /\ ret.op = "PduTriggering::connect_to_ecu" /\ ret.status = "InvalidParameter"
    /\ pduTriggerings[ret.args[1]].signal_triggerings # <<>>
    /\ ~HasEcuConnector(pduTriggerings[ret.args[1]].channel, ret.args[2])

(***************************************************************************)
(* C8, C9                                                                  *)
(***************************************************************************)

\* the mapping that the last, successful, map_signal returned
ReturnedMapping == mappings[ret.args[1]][ret.value]

\* C8: the mapping that map_signal returns is the last mapping of the Pdu and
\* reads back the signal, start position, byte order and transfer property that
\* map_signal was called with.
C8_MappingHoldsAttributes ==
    (ret.op = "map_signal" /\ ret.status = "Ok") =>
        /\ ret.value = Len(mappings[ret.args[1]])
        /\ Mapping_signal(ReturnedMapping) = ret.args[2]
        /\ Mapping_start_position(ReturnedMapping) = ret.args[3]
        /\ Mapping_byte_order(ReturnedMapping) = ret.args[4]
        /\ Mapping_transfer_property(ReturnedMapping) = ret.args[6]

\* map_signal has returned a mapping with an update bit that differs from the
\* start position
C8_Witness ==
    /\ ret.op = "map_signal" /\ ret.status = "Ok"
    /\ ret.args[3] = 8 /\ ret.args[4] = "Opaque" /\ ret.args[5] = 12
    /\ ret.args[6] = "TriggeredOnChange"

\* C9: update_bit() of the mapping that map_signal returns is the update-bit
\* position that map_signal was called with, and no value when it was called
\* with none.
C9_UpdateBitHeld ==
    (ret.op = "map_signal" /\ ret.status = "Ok") =>
        Mapping_update_bit(ReturnedMapping) = ret.args[5]

(***************************************************************************)
(* C10                                                                     *)
(***************************************************************************)

\* the names make_unique_name derives from a name when n elements exist
DerivedNames(name, n) == {name} \cup {name \o "_" \o ToString(k) : k \in 1..n}

\* C10: the names of the mappings of a Pdu are pairwise distinct and each is
\* derived from the name of its signal; map_signal of a signal that has a name
\* does not fail, whatever mappings the Pdu has.
C10_MappingNamesDistinct ==
    /\ \A pdu \in ISignalIPdus :
        /\ \A i, j \in DOMAIN mappings[pdu] :
                i # j => mappings[pdu][i].name # mappings[pdu][j].name
        /\ \A i \in DOMAIN mappings[pdu] :
                mappings[pdu][i].name
                    \in DerivedNames(SignalName(Mapping_signal(mappings[pdu][i])),
                                     Len(mappings[pdu]))
    /\ (ret.op = "map_signal" /\ SignalName(ret.args[2]) # NoName) => ret.status = "Ok"

\* the Pdu has mappings of two signals of the same name and a second mapping of
\* one of them
C10_Witness ==
    /\ ret.op = "map_signal" /\ ret.status = "Ok"
    /\ Len(mappings["p"]) = 3
    /\ Mapping_signal(mappings["p"][1]) # Mapping_signal(mappings["p"][2])
    /\ Mapping_signal(mappings["p"][3]) = Mapping_signal(mappings["p"][1])

(***************************************************************************)
(* C11                                                                     *)
(***************************************************************************)

\* the PduTriggering has got one more child in the step
GotChild(pt) ==
    /\ Len(pduTriggerings'[pt].signal_triggerings)
        = Len(pduTriggerings[pt].signal_triggerings) + 1
    /\ Last(pduTriggerings'[pt].signal_triggerings) \notin DOMAIN signalTriggerings
    /\ SubSeq(pduTriggerings'[pt].signal_triggerings, 1,
              Len(pduTriggerings[pt].signal_triggerings))
        = pduTriggerings[pt].signal_triggerings

\* the PduTriggering has got one more child of the signal in the step, and the
\* child has a port for every pair of the PduTriggering
GotConnectedChild(pt, signal) ==
    /\ GotChild(pt)
    /\ signalTriggerings'[Last(pduTriggerings'[pt].signal_triggerings)].signal = signal
    /\ StPairs(GraphNext, Last(pduTriggerings'[pt].signal_triggerings))
        = PtPairs(Graph, pt)

\* the fan-out of the step has failed at the k-th of the PduTriggerings pts
FailedAt(pts, signal, k) ==
    /\ \A i \in 1..(k - 1) : GotConnectedChild(pts[i], signal)
    /\ \A i \in (k + 1)..Len(pts) : pduTriggerings'[pts[i]] = pduTriggerings[pts[i]]
    /\ \/ pduTriggerings'[pts[k]] = pduTriggerings[pts[k]]
       \/ /\ GotChild(pts[k])
          /\ StPairs(GraphNext, Last(pduTriggerings'[pts[k]].signal_triggerings))
                # PtPairs(Graph, pts[k])
          /\ StPairs(GraphNext, Last(pduTriggerings'[pts[k]].signal_triggerings))
                \subseteq PtPairs(Graph, pts[k])
    /\ Cardinality(DOMAIN signalTriggerings' \ DOMAIN signalTriggerings)
        = Cardinality({i \in 1..k : GotChild(pts[i])})

\* the first round of the fan-out over pts, from round k on, in which
\* add_signal_triggering returns an error; 0 when there is none
RECURSIVE FailingRound(_, _, _, _)
FailingRound(g, pts, signal, k) ==
    IF k > Len(pts) THEN 0
    ELSE LET a == add_signal_triggering(g, pts[k], signal)
         IN  IF a.status # "Ok" THEN k ELSE FailingRound(a.g, pts, signal, k + 1)

C11_Step ==
    (/\ ret'.op = "map_signal"
     /\ SignalName(ret'.args[2]) # NoName
     /\ FailingRound(Graph, pdu_triggerings(Graph, ret'.args[1]), ret'.args[2], 1) # 0) =>
        /\ ret'.status # "Ok"
        /\ FailedAt(pdu_triggerings(Graph, ret'.args[1]), ret'.args[2],
                    FailingRound(Graph, pdu_triggerings(Graph, ret'.args[1]),
                                 ret'.args[2], 1))
        /\ mappings' = mappings
        /\ \A pt \in DOMAIN pduTriggerings :
                pduTriggerings'[pt].ports = pduTriggerings[pt].ports
        /\ \A st \in DOMAIN signalTriggerings :
                signalTriggerings'[st] = signalTriggerings[st]

C12_UnresolvedSignalRejected ==
    [][(ret'.op = "map_signal" /\ SignalName(ret'.args[2]) = NoName) =>
        /\ ret'.status = "InvalidParameter"
        /\ UNCHANGED GraphVars]_vars

\* map_signal of the signal without a name has failed on a Pdu that has two
\* PduTriggerings, one of them with a port and a child
C12_Witness ==
    /\ ret.op = "map_signal" /\ ret.status = "InvalidParameter"
    /\ SignalName(ret.args[2]) = NoName
    /\ Len(pduTriggerings) = 2
    /\ pduTriggerings[1].ports # <<>>
    /\ pduTriggerings[1].signal_triggerings # <<>>

(***************************************************************************)
(* C13                                                                     *)
(***************************************************************************)

\* a step of Signal::new or SignalGroup::new for the name and the two packages,
\* making elements of the kinds sig_kind and sys_kind
C13_Call(name, sig_package, sys_package, sig_kind, sys_kind) ==
    LET sig == ElementPath(sig_package, name)
        sys == ElementPath(sys_package, name)
    IN  /\ sig_package = sys_package =>
            /\ ret'.status = "InvalidParameter"
            /\ elements' = elements
        /\ (sig_package # sys_package /\ ret'.status = "Ok") =>
            /\ sig \notin DOMAIN elements
            /\ sys \notin DOMAIN elements
            /\ DOMAIN elements' = DOMAIN elements \cup {sig, sys}
            /\ \A path \in DOMAIN elements : elements'[path] = elements[path]
            /\ elements'[sig].kind = sig_kind
            /\ elements'[sys].kind = sys_kind
            /\ elements'[sig].Ref = sys
            /\ ret'.value = sig
        /\ (sig_package # sys_package /\ sig \notin DOMAIN elements
                /\ sys \notin DOMAIN elements) =>
            ret'.status = "Ok"

C13_Step ==
    /\ ret'.op = "Signal::new" =>
        C13_Call(ret'.args[1], ret'.args[3], ret'.args[4], "ISignal", "SystemSignal")
    /\ ret'.op = "SignalGroup::new" =>
        C13_Call(ret'.args[1], ret'.args[2], ret'.args[3], "ISignalGroup",
                 "SystemSignalGroup")

\* C13: Signal::new and SignalGroup::new with the same package for both sides
\* fail with InvalidParameter and add no element; with two different packages
\* that both have the name free they succeed, add one element of that name to
\* each package and let the element of the signal package refer to the one of
\* the system package.
C13_ScopesMustDiffer == [][C13_Step]_vars

\* Signal::new with one package for both sides has failed for a name that is
\* free in the package, after a SignalGroup was made in two packages
C13_Witness ==
    /\ ret.op = "Signal::new" /\ ret.status = "InvalidParameter"
    /\ ret.args[3] = ret.args[4]
    /\ ElementPath(ret.args[3], ret.args[1]) \notin DOMAIN elements
    /\ \E sig, sys \in DOMAIN elements :
        /\ elements[sig].kind = "ISignalGroup"
        /\ elements[sys].kind = "SystemSignalGroup"
        /\ elements[sig].Ref = sys

(***************************************************************************)
(* C14                                                                     *)
(***************************************************************************)

\* C14: a value of each of the nine Pdu types that is wrapped into Pdu has the
\* variant of its type, and its element converts back to an equal Pdu and to an
\* equal value of the type; an element that is of none of the nine kinds
\* converts to Pdu with a ConversionError that holds the element and "Pdu".
C14_PduRoundTrip ==
    /\ (ret.op = "Pdu::from" /\ ret.status = "Ok") =>
        /\ ret.value.variant = ret.args[1]
        /\ ret.value.inner.type = ret.args[1]
        /\ Pdu_element(ret.value) = ElementPath(ret.args[3], ret.args[2])
        /\ Pdu_try_from(elements, Pdu_element(ret.value))
            = [status |-> "Ok", value |-> ret.value]
        /\ Type_try_from(elements, ret.args[1], Pdu_element(ret.value))
            = [status |-> "Ok", value |-> ret.value.inner]
    /\ ret.op = "Pdu::try_from" =>
        IF elements[ret.args[1]].kind \in PduVariants
        THEN /\ ret.status = "Ok"
             /\ ret.value.variant = elements[ret.args[1]].kind
             /\ Pdu_element(ret.value) = ret.args[1]
        ELSE /\ ret.status = "ConversionError"
             /\ ret.value = ConversionError(ret.args[1], "Pdu")
    /\ (ret.op = "Type::try_from" /\ elements[ret.args[1]].kind \in PduVariants) =>
        (ret.status = "Ok") = (ret.args[2] = elements[ret.args[1]].kind)

\* the element of an ISignal did not convert to Pdu, in packages that hold a
\* SecuredIPdu too
C14_Witness ==
    /\ ret.op = "Pdu::try_from" /\ ret.status = "ConversionError"
    /\ elements[ret.args[1]].kind = "ISignal"
    /\ \E element \in DOMAIN elements :
        /\ elements[element].kind = "SecuredIPdu"
        /\ Pdu_try_from(elements, element).status = "Ok"

(***************************************************************************)
(* C15                                                                     *)
(***************************************************************************)

\* C15: map_signal of a signal that has a name succeeds whatever mappings the
\* Pdu has and whatever the start position is, and appends one mapping of the
\* signal at that start position to the mappings of the Pdu.
C15_NoOverlapValidation ==
    [][(ret'.op = "map_signal" /\ SignalName(ret'.args[2]) # NoName) =>
        /\ ret'.status = "Ok"
        /\ Len(mappings'[ret'.args[1]]) = Len(mappings[ret'.args[1]]) + 1
        /\ SubSeq(mappings'[ret'.args[1]], 1, Len(mappings[ret'.args[1]]))
            = mappings[ret'.args[1]]
        /\ Mapping_signal(Last(mappings'[ret'.args[1]])) = ret'.args[2]
        /\ Mapping_start_position(Last(mappings'[ret'.args[1]])) = ret'.args[3]]_vars

\* the Pdu has a signal at 0, the same signal at 0 once more, and another signal
\* at 4, inside the bits of the first two
C15_Witness ==
    /\ ret.op = "map_signal" /\ ret.status = "Ok"
    /\ Len(mappings["p"]) = 3
    /\ Mapping_signal(mappings["p"][1]) = Mapping_signal(mappings["p"][2])
    /\ Mapping_start_position(mappings["p"][1]) = 0
    /\ Mapping_start_position(mappings["p"][2]) = 0
    /\ Mapping_signal(mappings["p"][3]) # Mapping_signal(mappings["p"][1])
    /\ Mapping_start_position(mappings["p"][3]) = 4
    /\ Overlaps(mappings["p"][1], Mapping_signal(mappings["p"][3]), 4)

(***************************************************************************)
(* C16                                                                     *)
(***************************************************************************)

\* the PduTriggerings and the ISignalTriggerings of a channel
PtsOf(channel) == {pt \in DOMAIN pduTriggerings : pduTriggerings[pt].channel = channel}
StsOf(channel) ==
    {st \in DOMAIN signalTriggerings : signalTriggerings[st].channel = channel}

\* C16: the names of the PduTriggerings and ISignalTriggerings of a channel are
\* pairwise distinct; the first PduTriggering of the Pdu p on a channel is named
\* PT_p and the first ISignalTriggering of a signal named s is named ST_s; each
\* further one has a name derived from that, and creating it does not fail.
C16_TriggeringNamesDistinct ==
    /\ \A channel \in Channels :
        /\ \A pt1, pt2 \in PtsOf(channel) :
                pt1 # pt2 => pduTriggerings[pt1].name # pduTriggerings[pt2].name
        /\ \A st1, st2 \in StsOf(channel) :
                st1 # st2 => signalTriggerings[st1].name # signalTriggerings[st2].name
        /\ \A pt \in PtsOf(channel), st \in StsOf(channel) :
                pduTriggerings[pt].name # signalTriggerings[st].name
        /\ \A pt \in PtsOf(channel) :
                /\ pduTriggerings[pt].name
                    \in DerivedNames("PT_" \o PduName(pduTriggerings[pt].pdu),
                                     Len(pduTriggerings))
                /\ pt = Min(PtsOf(channel)) =>
                    pduTriggerings[pt].name = "PT_" \o PduName(pduTriggerings[pt].pdu)
        /\ \A st \in StsOf(channel) :
                /\ signalTriggerings[st].name
                    \in DerivedNames("ST_" \o SignalName(signalTriggerings[st].signal),
                                     Len(signalTriggerings))
                /\ st = Min(StsOf(channel)) =>
                    signalTriggerings[st].name
                        = "ST_" \o SignalName(signalTriggerings[st].signal)
    /\ ret.op = "PduTriggering::new" => ret.status = "Ok"
    /\ ret.status # "DuplicateItemName"

\* channel c1 has two PduTriggerings of the Pdu, PT_p and PT_p_1, and the
\* ISignalTriggerings ST_s and ST_s_1 of one signal
C16_Witness ==
    /\ Len(pduTriggerings) = 2
    /\ pduTriggerings[1].channel = "c1" /\ pduTriggerings[1].name = "PT_p"
    /\ pduTriggerings[2].channel = "c1" /\ pduTriggerings[2].name = "PT_p_1"
    /\ Len(signalTriggerings) = 2
    /\ signalTriggerings[1].signal = signalTriggerings[2].signal
    /\ signalTriggerings[1].name = "ST_s"
    /\ signalTriggerings[2].name = "ST_s_1"

(***************************************************************************)
(* C17                                                                     *)
(***************************************************************************)

\* C17: every child ISignalTriggering of a PduTriggering has a port for every
\* (ECU, direction) pair that the PduTriggering has a port for.
C17_PduPairsInChildren ==
    \A pt \in DOMAIN pduTriggerings : \A st \in Children(Graph, pt) :
        PtPairs(Graph, pt) \subseteq StPairs(Graph, st)

\* a PduTriggering with a port has two children that both have a port for its
\* pair, and ISignalTriggering.connect_to_ecu has given one child a port more
C17_Witness ==
    /\ ret.op = "ISignalTriggering::connect_to_ecu" /\ ret.status = "Ok"
    /\ \E pt \in DOMAIN pduTriggerings :
        /\ Len(pduTriggerings[pt].ports) = 1
        /\ Len(pduTriggerings[pt].signal_triggerings) = 2
        /\ \A st \in Children(Graph, pt) : PtPairs(Graph, pt) \subseteq StPairs(Graph, st)
        /\ ret.args[1] \in Children(Graph, pt)
        /\ <<ret.args[2], ret.args[3]>> \notin PtPairs(Graph, pt)

(***************************************************************************)
(* C18                                                                     *)
(***************************************************************************)

\* C18: every PduTriggering of an ISignalIPdu has as many child
\* ISignalTriggerings as the Pdu has mappings, the i-th child being an
\* ISignalTriggering of its own for the signal of the i-th mapping.
C18_OneChildPerMapping ==
    \A pt \in DOMAIN pduTriggerings :
        pduTriggerings[pt].pdu \in ISignalIPdus =>
            /\ Len(pduTriggerings[pt].signal_triggerings)
                = Len(mappings[pduTriggerings[pt].pdu])
            /\ Cardinality(Children(Graph, pt)) = Len(mappings[pduTriggerings[pt].pdu])
            /\ \A i \in DOMAIN pduTriggerings[pt].signal_triggerings :
                    signalTriggerings[pduTriggerings[pt].signal_triggerings[i]].signal
                        = Mapping_signal(mappings[pduTriggerings[pt].pdu][i])

\* one signal is mapped twice, before and after the PduTriggering was made, and
\* the PduTriggering has two children of that signal
C18_Witness ==
    /\ ret.op = "map_signal" /\ ret.status = "Ok"
    /\ Len(mappings["p"]) = 2
    /\ Mapping_signal(mappings["p"][1]) = Mapping_signal(mappings["p"][2])
    /\ Len(pduTriggerings) = 1
    /\ pduTriggerings[1].signal_triggerings = <<1, 2>>
    /\ signalTriggerings[1].signal = signalTriggerings[2].signal
    /\ signalTriggerings[1].name # signalTriggerings[2].name

(***************************************************************************)
(* C19                                                                     *)
(***************************************************************************)

\* the first of the children sts, from child i on, whose connect_to_ecu returns
\* an error; 0 when there is none
RECURSIVE FailingChild(_, _, _, _, _)
FailingChild(g, sts, ecu, direction, i) ==
    IF i > Len(sts) THEN 0
    ELSE LET r == ISignalTriggering_connect_to_ecu(g, sts[i], ecu, direction)
         IN  IF r.status # "Ok" THEN i
             ELSE FailingChild(r.g, sts, ecu, direction, i + 1)

\* PduTriggering.connect_to_ecu(ecu, direction) on pt gets as far as the loop
\* over the children
ReachesPropagation(pt, ecu, direction) ==
    /\ ExistingPort(Graph, pduTriggerings[pt].ports, ecu, direction) = NoPort
    /\ HasEcuConnector(pduTriggerings[pt].channel, ecu)
    /\ ~PortExists(Graph, PortPath(pduTriggerings[pt].channel, ecu,
                                   pduTriggerings[pt].name \o "_" \o PortSuffix(direction)))

C19_Call(pt, ecu, direction) ==
    LET sts == pduTriggerings[pt].signal_triggerings
        j == FailingChild(Graph, sts, ecu, direction, 1)
    IN  (ReachesPropagation(pt, ecu, direction) /\ j # 0) =>
            /\ ret'.status # "Ok"
            /\ Len(pduTriggerings'[pt].ports) = Len(pduTriggerings[pt].ports) + 1
            /\ <<ecu, direction>> \in PtPairs(GraphNext, pt)
            /\ pduTriggerings'[pt].signal_triggerings = sts
            /\ \A i \in 1..(j - 1) : <<ecu, direction>> \in StPairs(GraphNext, sts[i])
            /\ <<ecu, direction>> \notin StPairs(GraphNext, sts[j])
            /\ \A i \in j..Len(sts) : signalTriggerings'[sts[i]] = signalTriggerings[sts[i]]
            /\ mappings' = mappings

\* C19: when PduTriggering.connect_to_ecu(ecu, direction) cannot connect the
\* j-th child, it returns the error, the PduTriggering keeps its new port for
\* (ecu, direction), the j-1 children before have a port for (ecu, direction),
\* and the j-th child and the children after it are as they were, without a new
\* port.
C19_ConnectNotAtomic ==
    [][ret'.op = "PduTriggering::connect_to_ecu" =>
        C19_Call(ret'.args[1], ret'.args[2], ret'.args[3])]_vars

\* connect_to_ecu has failed at the second of three children: the PduTriggering
\* and the first child have a port for the pair, the other two children have not
C19_Witness ==
    /\ ret.op = "PduTriggering::connect_to_ecu" /\ ret.status = "DuplicateItemName"
    /\ Len(pduTriggerings[ret.args[1]].signal_triggerings) = 3
    /\ <<ret.args[2], ret.args[3]>> \in PtPairs(Graph, ret.args[1])
    /\ <<ret.args[2], ret.args[3]>>
        \in StPairs(Graph, pduTriggerings[ret.args[1]].signal_triggerings[1])
    /\ <<ret.args[2], ret.args[3]>>
        \notin StPairs(Graph, pduTriggerings[ret.args[1]].signal_triggerings[2])
    /\ <<ret.args[2], ret.args[3]>>
        \notin StPairs(Graph, pduTriggerings[ret.args[1]].signal_triggerings[3])

(***************************************************************************)
(* C20                                                                     *)
(***************************************************************************)

\* the PduTriggering has a port for (ecu, direction) and its child st has none,
\* as after a connect_to_ecu that failed in the loop over the children
Stuck(g, pt, st, ecu, direction) ==
    /\ st \in Children(g, pt)
    /\ <<ecu, direction>> \in PtPairs(g, pt)
    /\ <<ecu, direction>> \notin StPairs(g, st)

\* C20: when a PduTriggering has a port for (ecu, direction) that a child lacks,
\* PduTriggering.connect_to_ecu(ecu, direction) returns the port of the
\* PduTriggering with success and connects no child: the child lacks the port
\* after the call as before, however often the call is made.
C20_RetryConnectsNoChild ==
    [][\A st \in DOMAIN signalTriggerings :
        (/\ ret'.op = "PduTriggering::connect_to_ecu"
         /\ Stuck(Graph, ret'.args[1], st, ret'.args[2], ret'.args[3])) =>
            /\ ret'.status = "Ok"
            /\ ret'.value = ExistingPort(Graph, pduTriggerings[ret'.args[1]].ports,
                                         ret'.args[2], ret'.args[3])
            /\ Stuck(GraphNext, ret'.args[1], st, ret'.args[2], ret'.args[3])
            /\ signalTriggerings' = signalTriggerings
            /\ ports' = ports]_vars

\* connect_to_ecu has returned the port of a PduTriggering with three children,
\* of which the first has a port for the pair and the other two have none
C20_Witness ==
    /\ ret.op = "PduTriggering::connect_to_ecu" /\ ret.status = "Ok"
    /\ ret.value \in DOMAIN ports
    /\ Len(pduTriggerings[ret.args[1]].signal_triggerings) = 3
    /\ <<ret.args[2], ret.args[3]>>
        \in StPairs(Graph, pduTriggerings[ret.args[1]].signal_triggerings[1])
    /\ Stuck(Graph, ret.args[1], pduTriggerings[ret.args[1]].signal_triggerings[2],
             ret.args[2], ret.args[3])
    /\ Stuck(Graph, ret.args[1], pduTriggerings[ret.args[1]].signal_triggerings[3],
             ret.args[2], ret.args[3])

(***************************************************************************)
(* C21                                                                     *)
(***************************************************************************)

\* C21: every child ISignalTriggering of a PduTriggering is on the channel of
\* the PduTriggering; PduTriggering.connect_to_ecu for an ECU that has a
\* connector on that channel does not fail with InvalidParameter, and here it
\* succeeds.
C21_ChildrenOnSameChannel ==
    /\ \A pt \in DOMAIN pduTriggerings : \A st \in Children(Graph, pt) :
            signalTriggerings[st].channel = pduTriggerings[pt].channel
    /\ (/\ ret.op = "PduTriggering::connect_to_ecu"
        /\ HasEcuConnector(pduTriggerings[ret.args[1]].channel, ret.args[2])) =>
            ret.status = "Ok"

\* a PduTriggering on channel c2 that has a child from the back-fill and a child
\* from map_signal has been connected to ECU B, and both children have the port
C21_Witness ==
    /\ ret.op = "PduTriggering::connect_to_ecu" /\ ret.status = "Ok"
    /\ pduTriggerings[ret.args[1]].channel = "c2"
    /\ Len(pduTriggerings[ret.args[1]].signal_triggerings) = 2
    /\ Len(pduTriggerings[ret.args[1]].ports) = 1
    /\ \A st \in Children(Graph, ret.args[1]) :
        /\ signalTriggerings[st].channel = "c2"
        /\ <<"B", ret.args[3]>> \in StPairs(Graph, st)

(***************************************************************************)
(* C22                                                                     *)
(***************************************************************************)

C22_Step ==
    ret'.op = "PduTriggering::connect_to_ecu" =>
        LET pt == ret'.args[1]
            ecu == ret'.args[2]
        IN  /\ mappings' = mappings
            /\ connectors' = connectors
            /\ DOMAIN pduTriggerings' = DOMAIN pduTriggerings
            /\ DOMAIN signalTriggerings' = DOMAIN signalTriggerings
            /\ \A q \in DOMAIN pduTriggerings :
                IF q = pt
                THEN pduTriggerings'[q]
                        = [pduTriggerings[q] EXCEPT !.ports = pduTriggerings'[q].ports]
                ELSE pduTriggerings'[q] = pduTriggerings[q]
            /\ \A st \in DOMAIN signalTriggerings :
                IF st \in Children(Graph, pt)
                THEN signalTriggerings'[st]
                        = [signalTriggerings[st] EXCEPT
                                !.ports = signalTriggerings'[st].ports]
                ELSE signalTriggerings'[st] = signalTriggerings[st]
            /\ \A id \in DOMAIN ports : id \in DOMAIN ports' /\ ports'[id] = ports[id]
            /\ \A id \in DOMAIN ports' \ DOMAIN ports :
                id[1] = pduTriggerings[pt].channel /\ id[2] = ecu

\* C22: PduTriggering.connect_to_ecu on one PduTriggering changes only the port
\* list of that PduTriggering, the port lists of its own children and the ports
\* under the connector of the chosen ECU on its channel; every other
\* PduTriggering, every ISignalTriggering that is not its child, every port that
\* existed and every mapping stay as they were.
C22_ConnectIsLocal == [][C22_Step]_vars

\* a Pdu has a PduTriggering on each channel, both with a child; one has been
\* connected and has got a port, as has its child; the other one and its child
\* have no port
C22_Witness ==
    /\ ret.op = "PduTriggering::connect_to_ecu" /\ ret.status = "Ok"
    /\ pduTriggerings[ret.args[1]].ports # <<>>
    /\ pduTriggerings[ret.args[1]].signal_triggerings # <<>>
    /\ \A st \in Children(Graph, ret.args[1]) : signalTriggerings[st].ports # <<>>
    /\ \E q \in DOMAIN pduTriggerings :
        /\ pduTriggerings[q].pdu = pduTriggerings[ret.args[1]].pdu
        /\ pduTriggerings[q].channel # pduTriggerings[ret.args[1]].channel
        /\ pduTriggerings[q].ports = <<>>
        /\ pduTriggerings[q].signal_triggerings # <<>>
        /\ \A st \in Children(Graph, q) : signalTriggerings[st].ports = <<>>

(***************************************************************************)
(* C23                                                                     *)
(***************************************************************************)

\* the sequence `after` starts with the sequence `before`
Extends(after, before) ==
    /\ Len(after) >= Len(before)
    /\ SubSeq(after, 1, Len(before)) = before

C23_Step ==
    /\ \A pdu \in DOMAIN mappings :
        pdu \in DOMAIN mappings' /\ Extends(mappings'[pdu], mappings[pdu])
    /\ Extends([q \in DOMAIN pduTriggerings' |-> pduTriggerings'[q].name],
               [q \in DOMAIN pduTriggerings |-> pduTriggerings[q].name])
    /\ \A pdu \in Pdus :
        Extends(pdu_triggerings(GraphNext, pdu), pdu_triggerings(Graph, pdu))
    /\ \A pt \in DOMAIN pduTriggerings :
        /\ pduTriggerings'[pt].name = pduTriggerings[pt].name
        /\ pduTriggerings'[pt].channel = pduTriggerings[pt].channel
        /\ pduTriggerings'[pt].pdu = pduTriggerings[pt].pdu
        /\ Extends(pduTriggerings'[pt].signal_triggerings,
                   pduTriggerings[pt].signal_triggerings)
        /\ Extends(pduTriggerings'[pt].ports, pduTriggerings[pt].ports)
    /\ Len(signalTriggerings') >= Len(signalTriggerings)
    /\ \A st \in DOMAIN signalTriggerings :
        /\ signalTriggerings'[st].name = signalTriggerings[st].name
        /\ signalTriggerings'[st].channel = signalTriggerings[st].channel
        /\ signalTriggerings'[st].signal = signalTriggerings[st].signal
        /\ Extends(signalTriggerings'[st].ports, signalTriggerings[st].ports)
    /\ \A id \in DOMAIN ports : id \in DOMAIN ports' /\ ports'[id] = ports[id]

\* C23: every operation, whether it succeeds or fails, only adds: the mappings
\* of a Pdu, the PduTriggerings of a Pdu, the children and the port references
\* of a PduTriggering and the port references of an ISignalTriggering keep what
\* they held, in the same order, and every element that existed stays as it
\* was.
C23_OnlyGrows == [][C23_Step]_vars

\* map_signal has failed for a Pdu that has a mapping already, and its
\* PduTriggering has kept the child that the failed call gave it
C23_Witness ==
    /\ ret.op = "map_signal" /\ ret.status # "Ok"
    /\ Len(mappings["p"]) = 1
    /\ Len(pduTriggerings) = 1
    /\ Len(pduTriggerings[1].signal_triggerings) = 2
    /\ Len(pduTriggerings[1].ports) = 1
    /\ signalTriggerings[pduTriggerings[1].signal_triggerings[1]].ports # <<>>
    /\ signalTriggerings[pduTriggerings[1].signal_triggerings[2]].ports = <<>>

(***************************************************************************)
(* C24                                                                     *)
(***************************************************************************)

\* C24: the PduTriggering that a successful PduTriggering::new returns is the
\* newest one, references the given Pdu on the given channel and has no port;
\* it has no child when the Pdu is not an ISignalIPdu or is an ISignalIPdu
\* without mappings, and else one child per mapping; none of its children has a
\* port.
C24_NewTriggeringIsBare ==
    (ret.op = "PduTriggering::new" /\ ret.status = "Ok") =>
        LET pt == ret.value
            pdu == ret.args[1]
        IN  /\ pt = Len(pduTriggerings)
            /\ pduTriggerings[pt].pdu = pdu
            /\ pduTriggerings[pt].channel = ret.args[2]
            /\ pduTriggerings[pt].ports = <<>>
            /\ IF PduVariant(pdu) # "ISignalIPdu"
               THEN pduTriggerings[pt].signal_triggerings = <<>>
               ELSE /\ mappings[pdu] = <<>> => pduTriggerings[pt].signal_triggerings = <<>>
                    /\ Len(pduTriggerings[pt].signal_triggerings) = Len(mappings[pdu])
            /\ \A st \in Children(Graph, pt) : signalTriggerings[st].ports = <<>>

\* a Pdu that is no ISignalIPdu has a PduTriggering without children, made when
\* the ISignalIPdu had a mapping already; a PduTriggering of the ISignalIPdu,
\* which has two mappings, has just been made and has two children without ports
C24_Witness ==
    /\ ret.op = "PduTriggering::new" /\ ret.status = "Ok" /\ ret.value = 2
    /\ pduTriggerings[1].pdu \in OtherPdus
    /\ pduTriggerings[1].signal_triggerings = <<>>
    /\ pduTriggerings[2].pdu \in ISignalIPdus
    /\ Len(mappings[pduTriggerings[2].pdu]) = 2
    /\ Len(pduTriggerings[2].signal_triggerings) = 2
    /\ pduTriggerings[2].ports = <<>>
    /\ \A st \in Children(Graph, 2) : signalTriggerings[st].ports = <<>>

(***************************************************************************)
(* C25                                                                     *)
(***************************************************************************)

\* the port that connect_to_ecu(ecu, direction) has returned for the triggering
\* `self`, whose ports are elements of the kind `kind`
C25_Port(self, kind, ecu, direction) ==
    LET port == ret.value
    IN  /\ port \in DOMAIN ports
        /\ ports[port].kind = kind
        /\ port[3] = self.name \o (IF direction = "In" THEN "_Rx" ELSE "_Tx")
        /\ port[1] = self.channel /\ port[2] = ecu
        /\ <<port[1], port[2]>> \in connectors
        /\ Port_ecu(port) = ecu
        /\ Port_communication_direction(Graph, port) = direction
        /\ \E i \in DOMAIN self.ports : self.ports[i] = port
        /\ ExistingPort(Graph, self.ports, ecu, direction) = port

\* C25: the port that a successful connect_to_ecu(ecu, direction) returns for a
\* triggering named T is named T_Rx for In and T_Tx for Out, lies under the
\* connector of the ECU on the channel of the triggering, reads back the ECU
\* and the direction, and is in the port reference list of the triggering,
\* where the search at the head of connect_to_ecu finds it.
C25_PortAsRequested ==
    /\ (ret.op = "PduTriggering::connect_to_ecu" /\ ret.status = "Ok") =>
        C25_Port(pduTriggerings[ret.args[1]], "IPduPort", ret.args[2], ret.args[3])
    /\ (ret.op = "ISignalTriggering::connect_to_ecu" /\ ret.status = "Ok") =>
        C25_Port(signalTriggerings[ret.args[1]], "ISignalPort", ret.args[2], ret.args[3])

\* ISignalTriggering.connect_to_ecu(B, Out) has returned the port ST_s_Tx of an
\* ISignalTriggering on channel c2 that had a port for (B, In), as its
\* PduTriggering has
C25_Witness ==
    /\ ret.op = "ISignalTriggering::connect_to_ecu" /\ ret.status = "Ok"
    /\ ret.args[2] = "B" /\ ret.args[3] = "Out"
    /\ ret.value = <<"c2", "B", "ST_s_Tx">>
    /\ \E pt \in DOMAIN pduTriggerings :
        /\ ret.args[1] \in Children(Graph, pt)
        /\ PtPairs(Graph, pt) = {<<"B", "In">>}
        /\ StPairs(Graph, ret.args[1]) = {<<"B", "In">>, <<"B", "Out">>}

=============================================================================
